---- MODULE Spec2Model ----
(***************************************************************************)
(* GLB renderer of pupapppupps (src/glb_renderer.go): document loading,    *)
(* the animation engine, keyframe interpolation, the scene-graph transform *)
(* resolver, skinning, drawing, teardown and the desktop texture, as state *)
(* machines over the fields of GLBRenderer; the render loop of main        *)
(* (src/main.go) and the WebSocket server (src/server.go) as goroutines    *)
(* that take and release their locks step by step.                         *)
(*                                                                         *)
(* Numbers.  float32 values are modelled by integers.  Keyframe samples of  *)
(* the documents below are multiples of 12 and keyframes lie at most 4     *)
(* ticks apart, so every blend the model computes is an integer.  Time is  *)
(* counted in ticks of the clock (time.Now).                               *)
(* Go slices are TLA+ sequences; At(s, i) is Go's s[i].                    *)
(*                                                                         *)
(* Specifications.  Spec: load, play, stop, update against the clock.      *)
(* SpecInterp: interpolateKeyframes alone.  SpecGlobal: the recursion of   *)
(* getGlobalNodeTransform step by step.  SpecLoad: documents with skins,   *)
(* accessors and vertex attributes, and computeBoneMatrices.  SpecTexture: *)
(* UpdateTexture over frames of several sizes and strides.  SpecRender:    *)
(* load, play, stop, Render and Destroy with the GL objects and the bone   *)
(* uniforms.  SpecMain: the render loop, the accept goroutine and the      *)
(* clients under mu.  SpecServer: connection handlers, their readers,      *)
(* BroadcastDesktopBuffer and ClientCount under the RWMutex.               *)
(***************************************************************************)
EXTENDS Integers, Sequences, FiniteSets, TLC

VARIABLES
    loaded,          \* "new" after NewGLBRenderer, "ok"/"failed" after LoadGLB returned
    Meshes,          \* r.Meshes
    NodeParents,     \* r.NodeParents
    NodeTransforms,  \* r.NodeTransforms
    BaseTransforms,  \* r.BaseTransforms
    Animations,      \* r.Animations (map name -> Animation)
    CurrentAnim,     \* r.CurrentAnim (a key of Animations, or NoAnim for nil)
    AnimStartTime,   \* r.AnimStartTime
    AnimLoop,        \* r.AnimLoop
    now,             \* the clock read by time.Now / time.Since
    panicked,        \* a Go run-time panic (index or slice out of range) was raised
    Document,        \* r.Document
    Skins,           \* r.Skins
    BoneMatrices,    \* r.BoneMatrices
    TextureWidth,    \* r.TextureWidth
    TextureHeight,   \* r.TextureHeight
    Texture,         \* the storage of the GL texture r.TextureID
    last,            \* history: the last call, its result and the state it started from
    ik,              \* a call of interpolateKeyframes: its arguments and its result
    gt,              \* a call of getGlobalNodeTransform: the recursion in progress
    tx,              \* history: the last call of UpdateTexture and the texture it found
    bm,              \* history: the last call of computeBoneMatrices and what it found
    gpu,             \* the GL objects and bone uniforms of the context, and the draws issued
    mainLoop,        \* main: the render loop, the accept goroutine and the lock mu
    ws               \* the WebSocket server: its goroutines, s.mu and s.clients

vars == <<loaded, Meshes, NodeParents, NodeTransforms, BaseTransforms, Animations,
          CurrentAnim, AnimStartTime, AnimLoop, now, panicked,
          Document, Skins, BoneMatrices, TextureWidth, TextureHeight, Texture,
          last, ik, gt, tx, bm, gpu, mainLoop, ws>>

\* the fields of the renderer and the clock
rendererVars == <<loaded, Meshes, NodeParents, NodeTransforms, BaseTransforms, Animations,
                  CurrentAnim, AnimStartTime, AnimLoop, now, panicked,
                  Document, Skins, BoneMatrices, TextureWidth, TextureHeight, Texture, last, gpu>>

\* the texture fields of the renderer and the GL texture
textureVars == <<TextureWidth, TextureHeight, Texture>>

---------------------------------------------------------------------------
(* Bounds *)

\* The clock runs from 0 to MaxTime ticks.
MaxTime == 4

\* Channels handed to interpolateKeyframes on its own have up to MaxKeyframes
\* timestamps, each in 0..MaxStamp.
MaxKeyframes == 3

MaxStamp == 2

\* The recursion of getGlobalNodeTransform is followed to a depth of MaxDepth calls.
MaxDepth == 5

\* Frames handed to UpdateTexture are 1..MaxWidth pixels wide and 1..MaxHeight rows
\* high, each row followed by up to MaxPad pixels of padding.
MaxWidth == 2

MaxHeight == 2

MaxPad == 1

\* ticks of the render loop, clients of the compositor, WebSocket connections, and
\* calls of the server made by the render loop
MaxTicks == 2
MaxClients == 2
MaxConns == 2
MaxCalls == 2

---------------------------------------------------------------------------
(* Go helpers *)

At(s, i) == s[i + 1]

\* Go's s[a:b]
Slice(s, a, b) == [k \in 1..(b - a) |-> s[a + k]]

\* Go's s[i] = v
SetAt(s, i, v) == [s EXCEPT ![i + 1] = v]

NoAnim == "<nil>"

Vec3(x, y, z) == <<x, y, z>>

\* mgl32.Quat{W, V}
Quat(w, v) == [W |-> w, V |-> v]

QuatIdent == Quat(1, Vec3(0, 0, 0))

---------------------------------------------------------------------------
(* Keyframe interpolation *)

Components(path) == IF path = "rotation" THEN 4 ELSE 3

\* sort.Search(count, func(i) { return Timestamps[i] > t }): binary search on [i, j)
RECURSIVE SearchLoop(_, _, _, _)
SearchLoop(ts, t, i, j) ==
    IF i < j
    THEN LET h == (i + j) \div 2
         IN  IF ~(At(ts, h) > t)
             THEN SearchLoop(ts, t, h + 1, j)
             ELSE SearchLoop(ts, t, i, h)
    ELSE i

Search(ts, t) == SearchLoop(ts, t, 0, Len(ts))

\* factor := (t - t0) / (t1 - t0), clamped to [0, 1]; kept as the fraction <<num, den>>
Factor(t, t0, t1) ==
    LET num == t - t0
        den == t1 - t0
    IN  IF den > 0 /\ num < 0 THEN <<0, 1>>
        ELSE IF den > 0 /\ num > den THEN <<1, 1>>
        ELSE <<num, den>>

\* no blend: the value of the earlier keyframe up to the next one
Lerp_HoldsStart(v0, v1, factor) == v0

\* v0 + (v1-v0)*factor
Lerp(v0, v1, factor) == v0 + ((v1 - v0) * factor[1]) \div factor[2]

\* mgl32.QuatSlerp(q0, q1, factor), a library routine: the model keeps what the
\* engine relies on, that factor 0 yields q0 (for unit q0) and that the result moves
\* to q1 as factor grows; between the two it blends componentwise.
QuatSlerp(q0, q1, factor) ==
    Quat(Lerp(q0.W, q1.W, factor),
         [i \in 1..3 |-> Lerp(q0.V[i], q1.V[i], factor)])

Ret(v) == [panic |-> FALSE, value |-> v]

\* a slice expression out of range
Panic == [panic |-> TRUE, value |-> <<>>]

\* idx == 0: t is before the first keyframe
HoldFirst(vals, components) ==
    IF components <= Len(vals) THEN Ret(Slice(vals, 0, components)) ELSE Ret(<<>>)

\* the last keyframe looked up one sample too far
HoldLast_OffByOne(vals, count, components) ==
    LET startIdx == count * components
    IN  IF startIdx + components <= Len(vals)
        THEN Ret(Slice(vals, startIdx, startIdx + components))
        ELSE Ret(<<>>)

\* idx == count: t is at or past the last keyframe
HoldLast(vals, count, components) ==
    LET startIdx == (count - 1) * components
    IN  IF startIdx + components <= Len(vals)
        THEN Ret(Slice(vals, startIdx, startIdx + components))
        ELSE Ret(<<>>)

\* t lies between keyframes idx-1 and idx
Blend(channel, t, idx) ==
    LET ts == channel.Timestamps
        vals == channel.Values
        components == Components(channel.Path)
        keyIdx == idx - 1
        t0 == At(ts, keyIdx)
        t1 == At(ts, keyIdx + 1)
        factor == Factor(t, t0, t1)
        startIdx0 == keyIdx * components
        startIdx1 == (keyIdx + 1) * components
    IN
    IF startIdx1 + components > Len(vals)
    THEN IF startIdx0 + components > Len(vals)
         THEN Panic
         ELSE Ret(Slice(vals, startIdx0, startIdx0 + components))
    ELSE IF channel.Path = "rotation"
    THEN LET q0 == Quat(At(vals, startIdx0 + 3),
                        Vec3(At(vals, startIdx0), At(vals, startIdx0 + 1), At(vals, startIdx0 + 2)))
             q1 == Quat(At(vals, startIdx1 + 3),
                        Vec3(At(vals, startIdx1), At(vals, startIdx1 + 1), At(vals, startIdx1 + 2)))
             qr == QuatSlerp(q0, q1, factor)
         IN  Ret(<<qr.V[1], qr.V[2], qr.V[3], qr.W>>)
    ELSE Ret([i \in 1..components |->
                Lerp(At(vals, startIdx0 + i - 1), At(vals, startIdx1 + i - 1), factor)])

interpolateKeyframes(channel, t) ==
    LET count == Len(channel.Timestamps)
        components == Components(channel.Path)
    IN
    IF count = 0 THEN Ret(<<>>)
    ELSE
    LET idx == Search(channel.Timestamps, t) IN
    IF idx = 0 THEN HoldFirst(channel.Values, components)
    ELSE IF idx = count THEN HoldLast(channel.Values, count, components)
    ELSE Blend(channel, t, idx)

---------------------------------------------------------------------------
(* Matrices: mgl32.Mat4, sixteen numbers in column-major order *)

\* element (row, col), both from 0
Elem(m, row, col) == m[col * 4 + row + 1]

Ident4 == <<1, 0, 0, 0,  0, 1, 0, 0,  0, 0, 1, 0,  0, 0, 0, 1>>

\* element (row, col) of the product x . y
Dot(x, y, row, col) ==
    Elem(x, row, 0) * Elem(y, 0, col) + Elem(x, row, 1) * Elem(y, 1, col)
  + Elem(x, row, 2) * Elem(y, 2, col) + Elem(x, row, 3) * Elem(y, 3, col)

\* a.Mul4(b), column by column; x and y are the operands a and b, each evaluated once
Mul4(a, b) ==
    CHOOSE m \in
        {<<Dot(x, y, 0, 0), Dot(x, y, 1, 0), Dot(x, y, 2, 0), Dot(x, y, 3, 0),
           Dot(x, y, 0, 1), Dot(x, y, 1, 1), Dot(x, y, 2, 1), Dot(x, y, 3, 1),
           Dot(x, y, 0, 2), Dot(x, y, 1, 2), Dot(x, y, 2, 2), Dot(x, y, 3, 2),
           Dot(x, y, 0, 3), Dot(x, y, 1, 3), Dot(x, y, 2, 3), Dot(x, y, 3, 3)>> :
         x \in {a}, y \in {b}} : TRUE

\* mgl32.Translate3D
Translate3D(x, y, z) == <<1, 0, 0, 0,  0, 1, 0, 0,  0, 0, 1, 0,  x, y, z, 1>>

\* mgl32.Scale3D
Scale3D(x, y, z) == <<x, 0, 0, 0,  0, y, 0, 0,  0, 0, z, 0,  0, 0, 0, 1>>

\* Quat.Mat4
QuatMat4(q) ==
    LET w == q.W
        x == q.V[1]
        y == q.V[2]
        z == q.V[3]
    IN  <<1 - 2*y*y - 2*z*z, 2*x*y + 2*w*z,     2*x*z - 2*w*y,     0,
          2*x*y - 2*w*z,     1 - 2*x*x - 2*z*z, 2*y*z + 2*w*x,     0,
          2*x*z + 2*w*y,     2*y*z - 2*w*x,     1 - 2*x*x - 2*y*y, 0,
          0,                 0,                 0,                 1>>

---------------------------------------------------------------------------
(* Node hierarchy and base transforms built by LoadGLB *)

\* for _, childIdx := range node.Children { r.NodeParents[childIdx] = parentIdx }
RECURSIVE AssignChildren(_, _, _, _)
AssignChildren(parents, children, k, parentIdx) ==
    IF k >= Len(children) THEN parents
    ELSE AssignChildren(SetAt(parents, At(children, k), parentIdx), children, k + 1, parentIdx)

\* for parentIdx, node := range doc.Nodes { ... }
RECURSIVE BuildNodeParents(_, _, _)
BuildNodeParents(nodes, parents, parentIdx) ==
    IF parentIdx >= Len(nodes) THEN parents
    ELSE BuildNodeParents(nodes,
                          AssignChildren(parents, At(nodes, parentIdx).Children, 0, parentIdx),
                          parentIdx + 1)

\* r.NodeParents[childIdx] with childIdx >= len(doc.Nodes) is an index out of range
ChildOutOfRange(nodes) ==
    \E p \in 1..Len(nodes) : \E k \in 1..Len(nodes[p].Children) :
        nodes[p].Children[k] >= Len(nodes)

\* the NodeTransform LoadGLB records for a node: the defaults, overwritten by the
\* authored value where the conditions of the code let it through
InitialTransform(node) ==
    [Translation |-> IF node.Translation # <<0, 0, 0>>
                     THEN node.Translation ELSE Vec3(0, 0, 0),
     Rotation    |-> IF node.Rotation # <<0, 0, 0, 1>>
                     THEN Quat(node.Rotation[4],
                               Vec3(node.Rotation[1], node.Rotation[2], node.Rotation[3]))
                     ELSE QuatIdent,
     Scale       |-> IF node.Scale # <<1, 1, 1>> /\ node.Scale # <<0, 0, 0>>
                     THEN node.Scale ELSE Vec3(1, 1, 1)]

---------------------------------------------------------------------------
(* Skins *)

\* switch accessor.Type: the number of floats of one element
ElemCount(type) ==
    IF type = "SCALAR" THEN 1
    ELSE IF type = "VEC2" THEN 2
    ELSE IF type = "VEC3" THEN 3
    ELSE IF type = "VEC4" THEN 4
    ELSE IF type = "MAT4" THEN 16
    ELSE 1

\* readAccessorFloats: an accessor is its Type, its Count and Data, the floats the
\* buffer holds from the accessor's offset on; what the buffer lacks reads as 0
readAccessorFloats(doc, accessorIndex) ==
    IF accessorIndex < 0 \/ accessorIndex >= Len(doc.Accessors)
    THEN [err |-> TRUE, result |-> <<>>]
    ELSE LET accessor == At(doc.Accessors, accessorIndex)
             totalFloats == accessor.Count * ElemCount(accessor.Type)
         IN  [err |-> FALSE,
              result |-> [i \in 1..totalFloats |->
                            IF i <= Len(accessor.Data) THEN accessor.Data[i] ELSE 0]]

\* the zero value of mgl32.Mat4, as make([]mgl32.Mat4, n) yields it
ZeroMat4 == [i \in 1..16 |-> 0]

\* the body of the skin loop: skin.InverseBindMatrices is an accessor index, -1 for nil
LoadSkin(doc, skin) ==
    [Joints |-> skin.Joints,
     InverseBindMatrices |->
        IF skin.InverseBindMatrices >= 0
        THEN LET res == readAccessorFloats(doc, skin.InverseBindMatrices)
             IN  IF ~res.err
                 THEN [i \in 1..Len(skin.Joints) |->
                         IF (i - 1) * 16 + 16 <= Len(res.result)
                         THEN Slice(res.result, (i - 1) * 16, i * 16)
                         ELSE ZeroMat4]
                 ELSE <<>>
        ELSE [i \in 1..Len(skin.Joints) |-> Ident4]]

\* for _, skin := range doc.Skins { ...; r.Skins = append(r.Skins, s) }
RECURSIVE LoadSkins(_, _, _)
LoadSkins(doc, k, skins) ==
    IF k > Len(doc.Skins) THEN skins
    ELSE LoadSkins(doc, k + 1, Append(skins, LoadSkin(doc, doc.Skins[k])))

\* maxJoints of the bone-matrix initialisation
RECURSIVE MaxJoints(_, _, _)
MaxJoints(skins, k, maxJoints) ==
    IF k > Len(skins) THEN maxJoints
    ELSE MaxJoints(skins, k + 1,
                   IF Len(skins[k].Joints) > maxJoints THEN Len(skins[k].Joints) ELSE maxJoints)

\* if len(r.Skins) > 0 { r.BoneMatrices = make(...); each set to identity }
InitBoneMatrices(skins, boneMatrices) ==
    IF Len(skins) > 0
    THEN [i \in 1..MaxJoints(skins, 1, 0) |-> Ident4]
    ELSE boneMatrices

---------------------------------------------------------------------------
(* Meshes *)

\* An attribute of a primitive: Present, the primitive binds an accessor to it; OK,
\* the modeler.Read* routine of the attribute accepts that accessor (its type and
\* component type agree with the attribute); Data, what it then reads.

\* normals, err = modeler.ReadNormal(...); if err != nil { normals = nil }, and the
\* same for the other optional attributes; nil where the attribute is not bound
ReadOptional(attr) == IF attr.Present /\ attr.OK THEN attr.Data ELSE <<>>

\* the two error returns of loadPrimitive
LoadFails(prim) == ~prim.HasPosition \/ ~prim.PositionOK

\* if x != nil && i < len(x) { x[i] } else { the default }
OrDefault(x, i, default) == IF i < Len(x) THEN At(x, i) ELSE default

\* the sixteen floats of vertex i: position, normal, texture coordinate, joints,
\* weights (positions of the documents have odd x and y, so the generated texture
\* coordinate is an integer)
Vertex(prim, i) ==
    LET pos == At(prim.Positions, i)
    IN  pos
        \o OrDefault(ReadOptional(prim.Normal), i, <<0, 1, 0>>)
        \o OrDefault(ReadOptional(prim.TexCoord), i,
                     <<(pos[1] + 1) \div 2, (pos[2] + 1) \div 2>>)
        \o OrDefault(ReadOptional(prim.Joints), i, <<0, 0, 0, 0>>)
        \o OrDefault(ReadOptional(prim.Weights), i, <<0, 0, 0, 0>>)

\* for i, pos := range positions { vertexData = append(vertexData, ...) }
RECURSIVE VertexData(_, _)
VertexData(prim, i) ==
    IF i >= Len(prim.Positions) THEN <<>>
    ELSE Vertex(prim, i) \o VertexData(prim, i + 1)

\* the zero value of Mesh returned with an error
NoMesh == [HasIndices |-> FALSE, VertexData |-> <<>>]

\* a primitive without positions loaded as a mesh without vertices
loadPrimitive_NoPositionCheck(prim) ==
    [err |-> FALSE,
     m |-> [HasIndices |-> prim.HasIndices, VertexData |-> VertexData(prim, 0)]]

\* loadPrimitive: fails when the primitive has no POSITION attribute or the
\* position accessor cannot be read; VertexData is what it uploads to m.VBO
loadPrimitive(prim) ==
    IF LoadFails(prim) THEN [err |-> TRUE, m |-> NoMesh]
    ELSE [err |-> FALSE,
          m |-> [HasIndices |-> prim.HasIndices, VertexData |-> VertexData(prim, 0)]]

\* the primitives of the document in the order LoadGLB visits them
RECURSIVE NodePrimitives(_, _)
NodePrimitives(doc, nodeIdx) ==
    IF nodeIdx >= Len(doc.Nodes) THEN <<>>
    ELSE LET node == At(doc.Nodes, nodeIdx)
             here == IF node.Mesh >= 0
                     THEN [k \in 1..Len(At(doc.Meshes, node.Mesh).Primitives) |->
                            [nodeIdx |-> nodeIdx, skin |-> node.Skin,
                             prim |-> At(doc.Meshes, node.Mesh).Primitives[k]]]
                     ELSE <<>>
         IN  here \o NodePrimitives(doc, nodeIdx + 1)

\* the mesh loop: appends to r.Meshes until a primitive fails
RECURSIVE LoadMeshes(_, _, _)
LoadMeshes(work, k, meshes) ==
    IF k > Len(work) THEN [err |-> FALSE, meshes |-> meshes]
    ELSE LET res == loadPrimitive(work[k].prim)
         IN  IF res.err THEN [err |-> TRUE, meshes |-> meshes]
             ELSE LoadMeshes(work, k + 1,
                             Append(meshes, [NodeIndex  |-> work[k].nodeIdx,
                                             SkinIndex  |-> work[k].skin,
                                             HasIndices |-> res.m.HasIndices,
                                             VertexData |-> res.m.VertexData]))

---------------------------------------------------------------------------
(* Animations registered by LoadGLB *)

\* fmt.Sprintf("animation_%d", len(r.Animations))
GeneratedName(k) == "animation_" \o ToString(k)

\* channels kept by the channel loop: target node present, both accessors readable
RECURSIVE LoadChannels(_, _)
LoadChannels(channels, k) ==
    IF k > Len(channels) THEN <<>>
    ELSE LET c == channels[k]
         IN  IF c.Node < 0 \/ ~c.TimestampsOK \/ ~c.ValuesOK
             THEN LoadChannels(channels, k + 1)
             ELSE <<[NodeIndex  |-> c.Node,
                     Path       |-> c.Path,
                     Timestamps |-> c.Timestamps,
                     Values     |-> c.Values]>> \o LoadChannels(channels, k + 1)

\* if len(timestamps) > 0 && timestamps[len-1] > a.Duration { a.Duration = ... }
RECURSIVE TrackDuration(_, _, _)
TrackDuration(channels, k, duration) ==
    IF k > Len(channels) THEN duration
    ELSE LET ts == channels[k].Timestamps
         IN  TrackDuration(channels, k + 1,
                 IF Len(ts) > 0 /\ ts[Len(ts)] > duration THEN ts[Len(ts)] ELSE duration)

\* the animation loop, from the k-th animation of the document on
RECURSIVE LoadAnimations(_, _, _)
LoadAnimations(anims, k, registry) ==
    IF k > Len(anims) THEN registry
    ELSE LET name == IF anims[k].Name = ""
                     THEN GeneratedName(Cardinality(DOMAIN registry))
                     ELSE anims[k].Name
             chans == LoadChannels(anims[k].Channels, 1)
             a == [Name |-> name, Channels |-> chans,
                   Duration |-> TrackDuration(chans, 1, 0)]
         IN  LoadAnimations(anims, k + 1,
                 IF Len(chans) > 0
                 THEN [n \in DOMAIN registry \cup {name} |->
                          IF n = name THEN a ELSE registry[n]]
                 ELSE registry)

EmptyRegistry == [n \in {} |-> 0]


---------------------------------------------------------------------------
(* Animation engine: the pieces of PlayAnimation, StopAnimation, UpdateAnimation *)

\* the reset left out: the transforms of the previous tick stay (accumulation)
ResetToBase_Skipped(transforms, base) == transforms

\* for i := range r.NodeTransforms { r.NodeTransforms[i] = r.BaseTransforms[i] }
ResetToBase(transforms, base) == [i \in DOMAIN transforms |-> base[i]]

\* elapsed := float32(time.Since(r.AnimStartTime).Seconds())
Elapsed(start, clock) == clock - start

\* if r.AnimLoop && r.CurrentAnim.Duration > 0
LoopWraps(loop, duration) == loop /\ duration > 0

\* an off-by-one wrap: an elapsed time of exactly one duration is not folded back
WrapElapsed_Inclusive(elapsed, duration) ==
    IF elapsed = duration THEN elapsed ELSE elapsed % duration

\* elapsed = float32(math.Mod(float64(elapsed), float64(r.CurrentAnim.Duration)))
WrapElapsed(elapsed, duration) == elapsed % duration

\* the clip taken to be over as soon as the elapsed time reaches the duration
Finished_AtDuration(elapsed, duration) == elapsed >= duration

\* else if elapsed > r.CurrentAnim.Duration
Finished(elapsed, duration) == elapsed > duration

\* the switch on channel.Path: writes the property the channel targets, when the
\* interpolated value is long enough
ApplyValue(transforms, channel, value) ==
    LET n == channel.NodeIndex + 1 IN
    IF channel.Path = "translation" /\ Len(value) >= 3
    THEN [transforms EXCEPT ![n].Translation = Vec3(value[1], value[2], value[3])]
    ELSE IF channel.Path = "rotation" /\ Len(value) >= 4
    THEN [transforms EXCEPT ![n].Rotation = Quat(value[4], Vec3(value[1], value[2], value[3]))]
    ELSE IF channel.Path = "scale" /\ Len(value) >= 3
    THEN [transforms EXCEPT ![n].Scale = Vec3(value[1], value[2], value[3])]
    ELSE transforms

\* for _, channel := range r.CurrentAnim.Channels { ... }, from the k-th channel on;
\* a panic in interpolateKeyframes ends the loop with the transforms written so far
RECURSIVE ApplyChannels(_, _, _, _)
ApplyChannels(transforms, channels, k, elapsed) ==
    IF k > Len(channels) THEN [panic |-> FALSE, transforms |-> transforms]
    ELSE LET channel == channels[k] IN
         IF channel.NodeIndex < 0 \/ channel.NodeIndex >= Len(transforms)
         THEN ApplyChannels(transforms, channels, k + 1, elapsed)
         ELSE LET res == interpolateKeyframes(channel, elapsed) IN
              IF res.panic THEN [panic |-> TRUE, transforms |-> transforms]
              ELSE ApplyChannels(ApplyValue(transforms, channel, res.value),
                                 channels, k + 1, elapsed)

---------------------------------------------------------------------------
(* History *)

Snapshot ==
    [CurrentAnim |-> CurrentAnim, AnimStartTime |-> AnimStartTime,
     AnimLoop |-> AnimLoop, NodeTransforms |-> NodeTransforms]

\* what the renderer holds of a document
DocumentState ==
    [Document |-> Document, Meshes |-> Meshes, Skins |-> Skins,
     BoneMatrices |-> BoneMatrices, NodeParents |-> NodeParents,
     NodeTransforms |-> NodeTransforms, BaseTransforms |-> BaseTransforms,
     Animations |-> Animations]

\* op: the call; name, loop: its arguments; err: it returned an error;
\* raw: time.Since(AnimStartTime) as UpdateAnimation read it; elapsed: the value of
\* the local `elapsed` handed to interpolateKeyframes (-1 when nothing was sampled);
\* pre: the playback state the call started from; doc: the document state it
\* started from
Call(op, name, loop, err, raw, elapsed) ==
    [op |-> op, name |-> name, loop |-> loop, err |-> err,
     raw |-> raw, elapsed |-> elapsed, pre |-> Snapshot, doc |-> DocumentState]

---------------------------------------------------------------------------
(* Documents *)

Paths == {"translation", "rotation", "scale"}

\* the sample of keyframe j (from 0) of a channel: distinct from one keyframe to the
\* next and from every authored base value below
KeyValue(path, j) ==
    IF path = "translation" THEN <<12 * (j + 1), 0, 24>>
    ELSE IF path = "scale" THEN <<12 * (j + 1), 12, 12>>
    ELSE IF j % 2 = 0 THEN <<0, 1, 0, 0>> ELSE <<0, 0, 1, 0>>

\* the flat value buffer of the first n keyframes
RECURSIVE KeyValues(_, _)
KeyValues(path, n) ==
    IF n = 0 THEN <<>> ELSE KeyValues(path, n - 1) \o KeyValue(path, n - 1)

\* a channel of the document: target node (-1: none), path, sampler input and output
DocChannel(node, path, ts, nvalues) ==
    [Node |-> node, Path |-> path,
     TimestampsOK |-> TRUE, Timestamps |-> ts,
     ValuesOK |-> TRUE, Values |-> KeyValues(path, nvalues)]

DocNode(children, t, r, s, mesh) ==
    [Children |-> children, Translation |-> t, Rotation |-> r, Scale |-> s,
     Mesh |-> mesh, Skin |-> -1]

\* an attribute the primitive does not bind
NoAttr == [Present |-> FALSE, OK |-> TRUE, Data |-> <<>>]

\* an attribute bound to an accessor: of the right type or not
Attr(ok, data) == [Present |-> TRUE, OK |-> ok, Data |-> data]

\* one triangle
Triangle == <<<<1, 1, 0>>, <<3, 1, 0>>, <<1, 3, 0>>>>

\* a primitive with indices and, at most, positions
DocPrimitive(hasPosition) ==
    [HasPosition |-> hasPosition, PositionOK |-> TRUE,
     Positions |-> IF hasPosition THEN Triangle ELSE <<>>,
     Normal |-> NoAttr, TexCoord |-> NoAttr, Joints |-> NoAttr, Weights |-> NoAttr,
     HasIndices |-> TRUE]

\* gltf.Document: the parts LoadGLB reads
Doc(nodes, meshes, animations, skins, accessors) ==
    [Nodes |-> nodes, Meshes |-> meshes, Animations |-> animations,
     Skins |-> skins, Accessors |-> accessors]

\* r.Document of a renderer that loaded nothing
NoDocument == Doc(<<>>, <<>>, <<>>, <<>>, <<>>)

\* a rig of two nodes, node 0 the root carrying the mesh, node 1 its child
RigNodes ==
    <<DocNode(<<1>>, <<2, 0, 0>>, <<0, 0, 0, 1>>, <<1, 1, 1>>, 0),
      DocNode(<<>>,  <<0, 0, 0>>, <<1, 0, 0, 0>>, <<2, 2, 2>>, -1)>>

RigMeshes == <<[Primitives |-> <<DocPrimitive(TRUE)>>]>>

\* <<path, timestamps>> of the one channel of "walk", which animates node 0:
\* durations 2, 3, 0 and a channel without keyframes
WalkShapes ==
    {<<"translation", <<0, 2>>>>, <<"rotation", <<1, 3>>>>,
     <<"scale", <<0>>>>, <<"translation", <<>>>>}

\* <<node, path, timestamps>> of the one channel of "idle", which animates node 1
\* or a node the document does not have
IdleShapes ==
    {<<1, "scale", <<0, 2>>>>, <<1, "rotation", <<0>>>>,
     <<1, "translation", <<1, 3>>>>, <<Len(RigNodes), "translation", <<0, 2>>>>}

WalkClips ==
    {[Name |-> "walk", Channels |-> <<DocChannel(0, w[1], w[2], Len(w[2]))>>] :
        w \in WalkShapes}

IdleClips ==
    {[Name |-> "idle", Channels |-> <<DocChannel(i[1], i[2], i[3], Len(i[3]))>>] :
        i \in IdleShapes}

AnimDocs ==
    {Doc(RigNodes, RigMeshes, <<w, i>>, <<>>, <<>>) : w \in WalkClips, i \in IdleClips}

\* documents LoadGLB rejects: no mesh at all, a primitive without POSITION
BadDocs ==
    {Doc(<<DocNode(<<>>, <<0, 0, 0>>, <<0, 0, 0, 1>>, <<1, 1, 1>>, -1)>>,
         <<>>, <<>>, <<>>, <<>>),
     Doc(RigNodes, <<[Primitives |-> <<DocPrimitive(TRUE), DocPrimitive(FALSE)>>]>>,
         <<>>, <<>>, <<>>)}

Docs == AnimDocs \cup BadDocs

\* names handed to PlayAnimation; "run" is in no document
Names == {"walk", "idle", "run"}

---------------------------------------------------------------------------
(* Operations of GLBRenderer *)

\* no call of interpolateKeyframes made
NoCall ==
    [channel |-> [NodeIndex |-> 0, Path |-> "translation",
                  Timestamps |-> <<>>, Values |-> <<>>],
     t |-> 0, called |-> FALSE, result |-> Ret(<<>>)]

\* no call of getGlobalNodeTransform in progress
NoWalk == [phase |-> "idle", node |-> -1, stack |-> <<>>, result |-> <<>>]

\* the texture name generated by NewGLBRenderer: no storage allocated yet
NoStorage == [Width |-> 0, Height |-> 0, Texels |-> <<>>]

\* no call of UpdateTexture made
NoUpload ==
    [called |-> FALSE, buffer |-> <<>>, width |-> 0, height |-> 0, stride |-> 0,
     realloc |-> FALSE, written |-> FALSE,
     pre |-> [TextureWidth |-> 0, TextureHeight |-> 0, Texture |-> NoStorage]]

\* no call of computeBoneMatrices made
NoBones == [called |-> FALSE, skinIndex |-> -1, pre |-> <<>>]

\* a GL object: the kind of its name and the mesh it belongs to (0: the renderer's)
GLObject(kind, mesh) == <<kind, mesh>>

\* gl.CreateProgram, then gl.GenTextures: the objects NewGLBRenderer returns with.
\* The two shader objects are deleted again before it returns.  No bone uniform has
\* been set and no draw issued; deleted lists the objects in the order of deletion.
NewContext ==
    [created |-> <<GLObject("program", 0), GLObject("texture", 0)>>,
     deleted |-> <<>>, bones |-> <<>>, draws |-> <<>>]

\* gl.GenVertexArrays, gl.GenBuffers, and gl.GenBuffers for the indices when the
\* primitive has some: the objects loadPrimitive creates for the k-th mesh
MeshObjects(m, k) ==
    <<GLObject("VAO", k), GLObject("VBO", k)>>
    \o (IF m.HasIndices THEN <<GLObject("EBO", k)>> ELSE <<>>)

\* the objects created by the calls of loadPrimitive that returned a mesh
RECURSIVE LoadedObjects(_, _)
LoadedObjects(meshes, k) ==
    IF k > Len(meshes) THEN <<>>
    ELSE MeshObjects(meshes[k], k) \o LoadedObjects(meshes, k + 1)


\* NewGLBRenderer
NewGLBRenderer ==
    /\ loaded = "new"
    /\ Meshes = <<>>
    /\ NodeParents = <<>>
    /\ NodeTransforms = <<>>
    /\ BaseTransforms = <<>>
    /\ Animations = EmptyRegistry
    /\ CurrentAnim = NoAnim
    /\ AnimStartTime = 0
    /\ AnimLoop = FALSE
    /\ now = 0
    /\ panicked = FALSE
    /\ Document = NoDocument
    /\ Skins = <<>>
    /\ BoneMatrices = <<>>
    /\ TextureWidth = 0
    /\ TextureHeight = 0
    /\ Texture = NoStorage
    /\ gpu = NewContext
    /\ last = [op |-> "new", name |-> "", loop |-> FALSE, err |-> FALSE,
               raw |-> -1, elapsed |-> -1,
               pre |-> [CurrentAnim |-> NoAnim, AnimStartTime |-> 0,
                        AnimLoop |-> FALSE, NodeTransforms |-> <<>>],
               doc |-> [Document |-> NoDocument, Meshes |-> <<>>, Skins |-> <<>>,
                        BoneMatrices |-> <<>>, NodeParents |-> <<>>,
                        NodeTransforms |-> <<>>, BaseTransforms |-> <<>>,
                        Animations |-> EmptyRegistry]]

\* main before its render loop starts: var clients []*wayland.Client, var mu
\* sync.Mutex, the desktop of MakeDesktop, the accept goroutine waiting on
\* listener.OnConnection.  clients holds the Status of each client; read is the last
\* read of desktop.Buffer by the loop and whether mu was held for it.
MainStart ==
    [pc |-> "select", mu |-> "free", accept |-> "wait", clients |-> <<>>,
     activeClients |-> <<>>, ticks |-> 0, Buffer |-> [frame |-> 0, drawn |-> 0],
     read |-> [site |-> "none", locked |-> FALSE, Buffer |-> [frame |-> 0, drawn |-> 0]]]

\* NewWebSocketServer: an empty clients map, s.mu unlocked; no connection made, the
\* render loop outside BroadcastDesktopBuffer and ClientCount
ServerStart ==
    [pc |-> [c \in 1..MaxConns |-> "new"], main |-> "idle", snapshot |-> {},
     victim |-> 0, writer |-> -1, readers |-> {}, clients |-> {}, calls |-> 0]

Init ==
    /\ NewGLBRenderer
    /\ ik = NoCall
    /\ gt = NoWalk
    /\ tx = NoUpload
    /\ bm = NoBones
    /\ mainLoop = MainStart
    /\ ws = ServerStart

LoadGLB(doc) ==
    /\ loaded = "new"
    /\ ~panicked
    /\ UNCHANGED <<ik, gt, tx, bm, mainLoop, ws, textureVars>>
    /\ UNCHANGED <<CurrentAnim, AnimStartTime, AnimLoop, now>>
    /\ Document' = doc
    /\ IF ChildOutOfRange(doc.Nodes)
       THEN /\ panicked' = TRUE
            /\ NodeParents' = [i \in 1..Len(doc.Nodes) |-> -1]
            /\ last' = Call("load", "", FALSE, TRUE, -1, -1)
            /\ UNCHANGED <<loaded, Meshes, NodeTransforms, BaseTransforms, Animations,
                           Skins, BoneMatrices, gpu>>
       ELSE LET transforms == [i \in 1..Len(doc.Nodes) |-> InitialTransform(doc.Nodes[i])]
                skins == LoadSkins(doc, 1, Skins)
                res == LoadMeshes(NodePrimitives(doc, 0), 1, Meshes)
                failed == res.err \/ Len(res.meshes) = 0
            IN  /\ NodeParents' =
                       BuildNodeParents(doc.Nodes, [i \in 1..Len(doc.Nodes) |-> -1], 0)
                /\ NodeTransforms' = transforms
                /\ BaseTransforms' = transforms
                /\ Skins' = skins
                /\ BoneMatrices' = InitBoneMatrices(skins, BoneMatrices)
                /\ Meshes' = res.meshes
                /\ gpu' = [gpu EXCEPT !.created = @ \o LoadedObjects(res.meshes, 1)]
                /\ Animations' = IF failed THEN Animations
                                 ELSE LoadAnimations(doc.Animations, 1, Animations)
                /\ loaded' = IF failed THEN "failed" ELSE "ok"
                /\ last' = Call("load", "", FALSE, failed, -1, -1)
                /\ UNCHANGED panicked

\* the lookup result assigned to r.CurrentAnim before ok is tested: a miss stores nil
PlayAnimation_AssignsFirst(name, loop) ==
    /\ loaded = "ok"
    /\ ~panicked
    /\ UNCHANGED <<ik, gt, tx, bm, gpu, mainLoop, ws, textureVars, Document, Skins, BoneMatrices>>
    /\ IF name \notin DOMAIN Animations
       THEN /\ CurrentAnim' = NoAnim
            /\ last' = Call("play", name, loop, TRUE, -1, -1)
            /\ UNCHANGED <<AnimStartTime, AnimLoop>>
       ELSE /\ CurrentAnim' = name
            /\ AnimStartTime' = now
            /\ AnimLoop' = loop
            /\ last' = Call("play", name, loop, FALSE, -1, -1)
    /\ UNCHANGED <<loaded, Meshes, NodeParents, NodeTransforms, BaseTransforms,
                   Animations, now, panicked>>

PlayAnimation(name, loop) ==
    /\ loaded = "ok"
    /\ ~panicked
    /\ UNCHANGED <<ik, gt, tx, bm, gpu, mainLoop, ws, textureVars, Document, Skins, BoneMatrices>>
    /\ IF name \notin DOMAIN Animations
       THEN /\ last' = Call("play", name, loop, TRUE, -1, -1)
            /\ UNCHANGED <<CurrentAnim, AnimStartTime, AnimLoop>>
       ELSE /\ CurrentAnim' = name
            /\ AnimStartTime' = now
            /\ AnimLoop' = loop
            /\ last' = Call("play", name, loop, FALSE, -1, -1)
    /\ UNCHANGED <<loaded, Meshes, NodeParents, NodeTransforms, BaseTransforms,
                   Animations, now, panicked>>

\* StopAnimation that clears r.CurrentAnim and leaves the pose
StopAnimation_KeepsPose ==
    /\ loaded = "ok"
    /\ ~panicked
    /\ UNCHANGED <<ik, gt, tx, bm, gpu, mainLoop, ws, textureVars, Document, Skins, BoneMatrices>>
    /\ CurrentAnim' = NoAnim
    /\ last' = Call("stop", "", FALSE, FALSE, -1, -1)
    /\ UNCHANGED <<loaded, Meshes, NodeParents, NodeTransforms, BaseTransforms, Animations,
                   AnimStartTime, AnimLoop, now, panicked>>

\* StopAnimation with the copy made in the other direction: the pose becomes the base
StopAnimation_CopiesToBase ==
    /\ loaded = "ok"
    /\ ~panicked
    /\ UNCHANGED <<ik, gt, tx, bm, gpu, mainLoop, ws, textureVars, Document, Skins, BoneMatrices>>
    /\ CurrentAnim' = NoAnim
    /\ BaseTransforms' = NodeTransforms
    /\ last' = Call("stop", "", FALSE, FALSE, -1, -1)
    /\ UNCHANGED <<loaded, Meshes, NodeParents, NodeTransforms, Animations,
                   AnimStartTime, AnimLoop, now, panicked>>

StopAnimation ==
    /\ loaded = "ok"
    /\ ~panicked
    /\ UNCHANGED <<ik, gt, tx, bm, gpu, mainLoop, ws, textureVars, Document, Skins, BoneMatrices>>
    /\ CurrentAnim' = NoAnim
    /\ NodeTransforms' = ResetToBase(NodeTransforms, BaseTransforms)
    /\ last' = Call("stop", "", FALSE, FALSE, -1, -1)
    /\ UNCHANGED <<loaded, Meshes, NodeParents, BaseTransforms, Animations,
                   AnimStartTime, AnimLoop, now, panicked>>

UpdateAnimation ==
    /\ loaded = "ok"
    /\ ~panicked
    /\ UNCHANGED <<ik, gt, tx, bm, gpu, mainLoop, ws, textureVars, Document, Skins, BoneMatrices>>
    /\ UNCHANGED <<loaded, Meshes, NodeParents, BaseTransforms, Animations,
                   AnimStartTime, AnimLoop, now>>
    /\ IF CurrentAnim = NoAnim
       THEN /\ last' = Call("update", "", FALSE, FALSE, -1, -1)
            /\ UNCHANGED <<CurrentAnim, NodeTransforms, panicked>>
       ELSE LET anim == Animations[CurrentAnim]
                raw == Elapsed(AnimStartTime, now)
                wraps == LoopWraps(AnimLoop, anim.Duration)
                elapsed == IF wraps THEN WrapElapsed(raw, anim.Duration) ELSE raw
            IN  IF ~wraps /\ Finished(elapsed, anim.Duration)
                THEN /\ CurrentAnim' = NoAnim
                     /\ last' = Call("update", "", FALSE, FALSE, raw, -1)
                     /\ UNCHANGED <<NodeTransforms, panicked>>
                ELSE LET res == ApplyChannels(ResetToBase(NodeTransforms, BaseTransforms),
                                              anim.Channels, 1, elapsed)
                     IN  /\ NodeTransforms' = res.transforms
                         /\ panicked' = res.panic
                         /\ last' = Call("update", "", FALSE, FALSE, raw, elapsed)
                         /\ UNCHANGED CurrentAnim

\* the clock advances
Tick ==
    /\ now < MaxTime
    /\ UNCHANGED <<ik, gt, tx, bm, gpu, mainLoop, ws, textureVars, Document, Skins, BoneMatrices>>
    /\ now' = now + 1
    /\ UNCHANGED <<loaded, Meshes, NodeParents, NodeTransforms, BaseTransforms,
                   Animations, CurrentAnim, AnimStartTime, AnimLoop, panicked, last>>

Next ==
    \/ \E doc \in Docs : LoadGLB(doc)
    \/ \E name \in Names, loop \in BOOLEAN : PlayAnimation(name, loop)
    \/ StopAnimation
    \/ UpdateAnimation
    \/ Tick

Spec == Init /\ [][Next]_vars


---------------------------------------------------------------------------
(* Properties of the animation engine *)

\* the clip the last call started from, and its duration
PreAnim == Animations[last.pre.CurrentAnim]

WasPlaying == last.pre.CurrentAnim # NoAnim

\* some channel of the clip targets property path of node n (from 0)
Targets(anim, n, path) ==
    \E k \in 1..Len(anim.Channels) :
        anim.Channels[k].NodeIndex = n /\ anim.Channels[k].Path = path

Property(transform, path) ==
    IF path = "translation" THEN <<transform.Translation>>
    ELSE IF path = "rotation" THEN <<transform.Rotation>>
    ELSE <<transform.Scale>>

\* C1: the first update of a non-looping clip whose elapsed time exceeds the
\* duration leaves the engine Stopped and every current transform at its base.
C1_FinishedClipReturnsToBase ==
    (last.op = "update" /\ WasPlaying /\ ~last.pre.AnimLoop
        /\ last.raw > PreAnim.Duration)
    => (CurrentAnim = NoAnim /\ NodeTransforms = BaseTransforms)

\* C2: right after a play that found its clip, the engine plays that clip and every
\* current transform equals its base, whatever was playing or posed before.
C2_PlayResetsPose ==
    (last.op = "play" /\ ~last.err)
    => (CurrentAnim = last.name /\ AnimLoop = last.loop
        /\ NodeTransforms = BaseTransforms)

\* C3: a play with a name that is not registered returns an error and leaves the
\* active clip, the start time, the loop flag and every current transform as found.
C3_PlayMissChangesNothing ==
    (last.op = "play" /\ last.name \notin DOMAIN Animations)
    => (last.err /\ Snapshot = last.pre)

\* a miss while a clip plays and has posed a node
C3_Witness ==
    /\ last.op = "play" /\ last.err
    /\ WasPlaying
    /\ last.pre.NodeTransforms # BaseTransforms

\* C4: stop leaves the engine Stopped with every current transform at its base, from
\* whatever state it is called in, and the update that follows it changes nothing.
C4_StopResetsAndUpdateIsNoOp ==
    /\ [](last.op = "stop" => (CurrentAnim = NoAnim /\ NodeTransforms = BaseTransforms))
    /\ [][(last.op = "stop" /\ last'.op = "update")
            => (CurrentAnim' = NoAnim /\ NodeTransforms' = BaseTransforms
                /\ AnimStartTime' = AnimStartTime /\ AnimLoop' = AnimLoop)]_vars

\* stop called while a looping clip plays and has posed a node
C4_Witness ==
    /\ last.op = "stop"
    /\ WasPlaying /\ last.pre.AnimLoop
    /\ last.pre.NodeTransforms # BaseTransforms

\* C5: a looping clip of duration D > 0 updated at or past start + D keeps playing,
\* and the channels are sampled at an elapsed time in [0, D), at 0 when exactly D
\* has passed.
C5_LoopWrapsElapsed ==
    (last.op = "update" /\ WasPlaying /\ last.pre.AnimLoop
        /\ PreAnim.Duration > 0 /\ last.raw >= PreAnim.Duration)
    => /\ CurrentAnim = last.pre.CurrentAnim
       /\ last.elapsed >= 0 /\ last.elapsed < PreAnim.Duration
       /\ last.raw = PreAnim.Duration => last.elapsed = 0
       /\ NodeTransforms =
            ApplyChannels(BaseTransforms, PreAnim.Channels, 1, last.elapsed).transforms

\* an update of a looping clip more than one duration after its start
C5_Witness ==
    /\ last.op = "update" /\ WasPlaying /\ last.pre.AnimLoop
    /\ PreAnim.Duration > 0 /\ last.raw > PreAnim.Duration
    /\ last.elapsed > 0
    /\ NodeTransforms # BaseTransforms

\* C6: a looping clip of duration 0 keeps playing under every update and is sampled
\* at elapsed 0.
C6_ZeroDurationLoopKeepsPlaying ==
    (last.op = "update" /\ WasPlaying /\ last.pre.AnimLoop /\ PreAnim.Duration = 0)
    => (CurrentAnim = last.pre.CurrentAnim /\ last.elapsed = 0)

\* C7: after an update that leaves the engine Playing, every property of every node
\* that no channel of the active clip targets has its base value.
C7_UntargetedPropertiesAtBase ==
    (last.op = "update" /\ CurrentAnim # NoAnim)
    => \A n \in 1..Len(NodeTransforms) : \A path \in Paths :
          ~Targets(Animations[CurrentAnim], n - 1, path)
          => Property(NodeTransforms[n], path) = Property(BaseTransforms[n], path)

\* the update overwrote a value an earlier clip had left on an untargeted property
C7_Witness ==
    /\ last.op = "update" /\ CurrentAnim # NoAnim
    /\ \E n \in 1..Len(NodeTransforms) : \E path \in Paths :
          /\ ~Targets(Animations[CurrentAnim], n - 1, path)
          /\ Property(last.pre.NodeTransforms[n], path) # Property(BaseTransforms[n], path)
          /\ Property(NodeTransforms[n], path) = Property(BaseTransforms[n], path)


---------------------------------------------------------------------------
(* interpolateKeyframes on its own: every channel shape, every sample time *)

\* timestamp lists, sorted or not, with or without repetitions
TimestampLists == UNION {[1..k -> 0..MaxStamp] : k \in 0..MaxKeyframes}

\* channels whose value buffer holds the samples of the first n keyframes, n up to
\* the number of timestamps
InterpChannels ==
    UNION {{[NodeIndex |-> 0, Path |-> p, Timestamps |-> ts, Values |-> KeyValues(p, n)] :
                n \in 0..Len(ts)} : p \in Paths, ts \in TimestampLists}

InitInterp ==
    /\ NewGLBRenderer
    /\ gt = NoWalk
    /\ tx = NoUpload
    /\ bm = NoBones
    /\ mainLoop = MainStart
    /\ ws = ServerStart
    /\ ik \in {[channel |-> c, t |-> t, called |-> FALSE, result |-> Ret(<<>>)] :
                  c \in InterpChannels, t \in 0..MaxTime}

Interpolate ==
    /\ ~ik.called
    /\ ik' = [ik EXCEPT !.called = TRUE,
                        !.result = interpolateKeyframes(ik.channel, ik.t)]
    /\ UNCHANGED <<rendererVars, gt, tx, bm, mainLoop, ws>>

NextInterp == Interpolate

SpecInterp == InitInterp /\ [][NextInterp]_vars

StrictlyIncreasing(ts) == \A i \in 1..(Len(ts) - 1) : ts[i] < ts[i + 1]

\* the value buffer holds a sample for every timestamp
FullyValued(channel) ==
    Len(channel.Values) >= Components(channel.Path) * Len(channel.Timestamps)

\* C8: for a channel with at least one keyframe and strictly increasing timestamps,
\* interpolation at t <= timestamps[0] returns the first keyframe's values and at
\* t >= timestamps[last] the last keyframe's values; a single-keyframe channel
\* returns its one sample for every t.
C8_HoldsFirstAndLastKeyframe ==
    LET ts == ik.channel.Timestamps
        path == ik.channel.Path
    IN  (ik.called /\ Len(ts) >= 1 /\ StrictlyIncreasing(ts) /\ FullyValued(ik.channel))
        => /\ ik.t <= ts[1] => ik.result = Ret(KeyValue(path, 0))
           /\ ik.t >= ts[Len(ts)] => ik.result = Ret(KeyValue(path, Len(ts) - 1))

\* a call at the last timestamp of a rotation channel of several keyframes
C8_Witness ==
    /\ ik.called
    /\ Len(ik.channel.Timestamps) >= 2
    /\ StrictlyIncreasing(ik.channel.Timestamps) /\ FullyValued(ik.channel)
    /\ ik.channel.Path = "rotation"
    /\ ik.t = ik.channel.Timestamps[Len(ik.channel.Timestamps)]
    /\ ik.result = Ret(KeyValue("rotation", Len(ik.channel.Timestamps) - 1))


---------------------------------------------------------------------------
(* Scene graph: local and global node transforms *)

getNodeTransformMatrix(transforms, nodeIndex) ==
    IF nodeIndex < 0 \/ nodeIndex >= Len(transforms) THEN Ident4
    ELSE LET t == At(transforms, nodeIndex)
             translation == Translate3D(t.Translation[1], t.Translation[2], t.Translation[3])
             rotation == QuatMat4(t.Rotation)
             scale == Scale3D(t.Scale[1], t.Scale[2], t.Scale[3])
         IN  Mul4(Mul4(translation, rotation), scale)

\* the product taken with the node's own matrix on the left
ComposeGlobal_LocalFirst(parentGlobal, localTransform) == Mul4(localTransform, parentGlobal)

\* return parentGlobal.Mul4(localTransform)
ComposeGlobal(parentGlobal, localTransform) == Mul4(parentGlobal, localTransform)

Pop(stack) == SubSeq(stack, 1, Len(stack) - 1)

Top(stack) == stack[Len(stack)]

\* a frame returned `value` to its caller, or to the outside when it was the last
Returned(stack, value) ==
    [gt EXCEPT !.phase = IF Len(stack) = 1 THEN "done" ELSE "return",
               !.stack = Pop(stack),
               !.result = value]

\* r.getGlobalNodeTransform(nodeIndex) is called from outside
GlobalCall(nodeIndex) ==
    /\ loaded = "ok"
    /\ ~panicked
    /\ gt.phase \in {"idle", "done"}
    /\ gt' = [phase |-> "call", node |-> nodeIndex, stack |-> <<nodeIndex>>, result |-> <<>>]
    /\ UNCHANGED <<rendererVars, ik, tx, bm, mainLoop, ws>>

\* the innermost call runs up to its return or to its recursive call
GlobalDescend ==
    /\ gt.phase = "call"
    /\ LET nodeIndex == Top(gt.stack) IN
       IF nodeIndex < 0 \/ nodeIndex >= Len(NodeTransforms)
       THEN gt' = Returned(gt.stack, Ident4)
       ELSE LET parentIdx == At(NodeParents, nodeIndex) IN
            IF parentIdx >= 0
            THEN /\ Len(gt.stack) < MaxDepth
                 /\ gt' = [gt EXCEPT !.stack = Append(gt.stack, parentIdx)]
            ELSE gt' = Returned(gt.stack, getNodeTransformMatrix(NodeTransforms, nodeIndex))
    /\ UNCHANGED <<rendererVars, ik, tx, bm, mainLoop, ws>>

\* the recursive call returned parentGlobal (gt.result) to the frame below it
GlobalReturn ==
    /\ gt.phase = "return"
    /\ gt' = Returned(gt.stack,
                      ComposeGlobal(gt.result,
                                    getNodeTransformMatrix(NodeTransforms, Top(gt.stack))))
    /\ UNCHANGED <<rendererVars, ik, tx, bm, mainLoop, ws>>

\* <<translation, rotation (x, y, z, w), scale>> authored on a node
AuthoredTRS ==
    {<<<<1, 2, 3>>, <<0, 0, 0, 1>>, <<2, 1, 1>>>>,
     <<<<0, 0, 0>>, <<1, 0, 0, 1>>, <<1, 1, 1>>>>,
     <<<<0, 1, 0>>, <<0, 0, 1, 0>>, <<1, 2, 3>>>>}

\* the children lists of three nodes: a chain, a star, a chain listed leaf first,
\* a node with two parents, no hierarchy, a node that lists itself, two nodes that
\* list each other, a root that lists itself
ChildrenLists ==
    {<<<<1>>, <<2>>, <<>>>>,
     <<<<1, 2>>, <<>>, <<>>>>,
     <<<<>>, <<0>>, <<1>>>>,
     <<<<2>>, <<2>>, <<>>>>,
     <<<<>>, <<>>, <<>>>>,
     <<<<1>>, <<1>>, <<>>>>,
     <<<<1>>, <<0, 2>>, <<>>>>,
     <<<<0>>, <<2>>, <<>>>>}

\* node 0 carries the mesh
TreeDocs ==
    {Doc([i \in 1..3 |->
             DocNode(c[i], trs[i][1], trs[i][2], trs[i][3], IF i = 1 THEN 0 ELSE -1)],
         RigMeshes, <<>>, <<>>, <<>>) :
        c \in ChildrenLists, trs \in [1..3 -> AuthoredTRS]}

NextGlobal ==
    \/ \E doc \in TreeDocs : LoadGLB(doc)
    \/ \E nodeIndex \in -1..3 : GlobalCall(nodeIndex)
    \/ GlobalDescend
    \/ GlobalReturn

SpecGlobal == Init /\ [][NextGlobal]_vars

\* the nodes from a root down to node n along r.NodeParents; <<>> when no root is
\* met within `fuel` steps
RECURSIVE RootPath(_, _)
RootPath(n, fuel) ==
    IF fuel = 0 THEN <<>>
    ELSE IF At(NodeParents, n) < 0 THEN <<n>>
    ELSE LET up == RootPath(At(NodeParents, n), fuel - 1)
         IN  IF up = <<>> THEN <<>> ELSE Append(up, n)

\* translate(T) . rotate(R) . scale(S) of the current transform of node n
LocalTRS(n) ==
    LET t == At(NodeTransforms, n)
    IN  Mul4(Translate3D(t.Translation[1], t.Translation[2], t.Translation[3]),
             Mul4(QuatMat4(t.Rotation), Scale3D(t.Scale[1], t.Scale[2], t.Scale[3])))

\* local(path[1]) . local(path[2]) . ... . local(path[k])
RECURSIVE PathProduct(_, _)
PathProduct(path, k) ==
    IF k = 1 THEN LocalTRS(path[1])
    ELSE Mul4(PathProduct(path, k - 1), LocalTRS(path[k]))

\* C9: for a node whose parent chain ends at a root, getGlobalNodeTransform returns
\* the product local(root) . ... . local(parent) . local(node), each local matrix
\* being translate(T) . rotate(R) . scale(S) of the node's current transform.
C9_GlobalIsProductFromRoot ==
    (gt.phase = "done" /\ gt.node >= 0 /\ gt.node < Len(NodeTransforms)
        /\ RootPath(gt.node, Len(NodeParents)) # <<>>)
    => LET path == RootPath(gt.node, Len(NodeParents))
       IN  gt.result = PathProduct(path, Len(path))

\* a finished call for a node two levels below its root, where the order of the
\* factors matters
C9_Witness ==
    /\ gt.phase = "done" /\ gt.node >= 0 /\ gt.node < Len(NodeTransforms)
    /\ LET path == RootPath(gt.node, Len(NodeParents))
       IN  /\ Len(path) = 3
           /\ gt.result = PathProduct(path, 3)
           /\ gt.result # Mul4(LocalTRS(path[3]), Mul4(LocalTRS(path[2]), LocalTRS(path[1])))

\* C10: getGlobalNodeTransform terminates for every node of every accepted document:
\* the recursion never comes back to a node it is already computing (a call that
\* does repeats the same walk without end).
C10_WalkNeverRevisitsNode ==
    \A i, j \in 1..Len(gt.stack) : i # j => gt.stack[i] # gt.stack[j]

\* every node reaches a root along r.NodeParents
Forest == \A n \in 1..Len(NodeParents) : RootPath(n - 1, Len(NodeParents)) # <<>>

\* C11: load fails whenever the children lists induce a cycle in the parent relation
\* (a node that is its own child, two nodes that list each other); after every
\* successful load the parent indices form a forest.
C11_CyclicDocumentIsRejected ==
    (last.op = "load" /\ ~last.err) => Forest


---------------------------------------------------------------------------
(* Skinning: computeBoneMatrices over the documents of SpecLoad *)

\* the fixed size of the boneMatrices uniform array, the cap of Render's upload
MaxBones == 128

\* getGlobalNodeTransform never returns: the parent chain of the node comes back to
\* a node the recursion is computing, and the program ends when the goroutine
\* stack overflows.  depth is the number of calls still allowed, one per node.
RECURSIVE NeverReturns(_, _, _, _)
NeverReturns(parents, transforms, nodeIndex, depth) ==
    IF nodeIndex < 0 \/ nodeIndex >= Len(transforms) THEN FALSE
    ELSE IF depth = 0 THEN TRUE
    ELSE At(parents, nodeIndex) >= 0
         /\ NeverReturns(parents, transforms, At(parents, nodeIndex), depth - 1)

\* getGlobalNodeTransform as the value it returns, where it returns
RECURSIVE getGlobalNodeTransform(_, _, _, _)
getGlobalNodeTransform(parents, transforms, nodeIndex, depth) ==
    IF nodeIndex < 0 \/ nodeIndex >= Len(transforms) \/ depth = 0 THEN Ident4
    ELSE IF At(parents, nodeIndex) >= 0
    THEN ComposeGlobal(getGlobalNodeTransform(parents, transforms,
                                              At(parents, nodeIndex), depth - 1),
                       getNodeTransformMatrix(transforms, nodeIndex))
    ELSE getNodeTransformMatrix(transforms, nodeIndex)

\* the product taken with the inverse-bind matrix on the left
BoneMatrix_InverseBindFirst(globalJointTransform, inverseBindMatrix) ==
    Mul4(inverseBindMatrix, globalJointTransform)

\* globalJointTransform.Mul4(skin.InverseBindMatrices[i])
BoneMatrix(globalJointTransform, inverseBindMatrix) ==
    Mul4(globalJointTransform, inverseBindMatrix)

\* if len(r.BoneMatrices) < len(skin.Joints) { r.BoneMatrices = make(...) }
EnsureSpace(boneMatrices, skin) ==
    IF Len(boneMatrices) < Len(skin.Joints)
    THEN [i \in 1..Len(skin.Joints) |-> ZeroMat4]
    ELSE boneMatrices

\* the iterations of the joint loop that cannot complete: the recursion overflows
\* the stack, or skin.InverseBindMatrices[i] is out of range
Panics(parents, transforms, skin) ==
    {i \in 0..(Len(skin.Joints) - 1) :
        \/ NeverReturns(parents, transforms, At(skin.Joints, i), Len(transforms))
        \/ i >= Len(skin.InverseBindMatrices)}

\* for i, jointIndex := range skin.Joints { r.BoneMatrices[i] = ... }: slot i is
\* written by iteration i, for the iterations before the first that panics
BoneLoop(parents, transforms, skin, boneMatrices) ==
    LET panics == Panics(parents, transforms, skin)
        stop == IF panics = {} THEN Len(skin.Joints)
                ELSE CHOOSE i \in panics : \A j \in panics : i <= j
    IN  [panic |-> panics # {},
         BoneMatrices |->
            [k \in 1..Len(boneMatrices) |->
                IF k - 1 < stop
                THEN BoneMatrix(getGlobalNodeTransform(parents, transforms,
                                                       At(skin.Joints, k - 1),
                                                       Len(transforms)),
                                At(skin.InverseBindMatrices, k - 1))
                ELSE boneMatrices[k]]]

computeBoneMatrices(skinIndex) ==
    /\ loaded = "ok"
    /\ ~panicked
    /\ bm' = [called |-> TRUE, skinIndex |-> skinIndex, pre |-> BoneMatrices]
    /\ IF skinIndex < 0 \/ skinIndex >= Len(Skins)
       THEN UNCHANGED <<BoneMatrices, panicked>>
       ELSE LET skin == At(Skins, skinIndex)
                res == BoneLoop(NodeParents, NodeTransforms, skin,
                                EnsureSpace(BoneMatrices, skin))
            IN  /\ BoneMatrices' = res.BoneMatrices
                /\ panicked' = res.panic
    /\ UNCHANGED <<loaded, Meshes, NodeParents, NodeTransforms, BaseTransforms, Animations,
                   CurrentAnim, AnimStartTime, AnimLoop, now, Document, Skins,
                   textureVars, last, ik, gt, tx, gpu, mainLoop, ws>>

\* a skin of the document: joint node indices, inverse-bind accessor (-1: none)
DocSkin(joints, inverseBindMatrices) ==
    [Joints |-> joints, InverseBindMatrices |-> inverseBindMatrices]

\* an accessor of `count` matrices over a buffer that holds the floats `data`
Mat4Accessor(count, data) == [Type |-> "MAT4", Count |-> count, Data |-> data]

\* the two inverse-bind matrices the documents store
BindData == Translate3D(1, 0, 2) \o Scale3D(2, 1, 1)

\* <<skins, accessors, skin of node 0>>: no skin; two joints without inverse-bind
\* accessor; with an accessor of two matrices; with an accessor of one matrix; with
\* an accessor index the document does not have; with an accessor whose buffer ends
\* after the first matrix; two skins of one and three joints, the larger with a
\* joint that is no node
SkinShapes ==
    {<<<<>>, <<>>, -1>>,
     <<<<DocSkin(<<1, 2>>, -1)>>, <<>>, 0>>,
     <<<<DocSkin(<<1, 2>>, 0)>>, <<Mat4Accessor(2, BindData)>>, 0>>,
     <<<<DocSkin(<<2, 1>>, 0)>>, <<Mat4Accessor(1, BindData)>>, 0>>,
     <<<<DocSkin(<<1, 2>>, 1)>>, <<Mat4Accessor(2, BindData)>>, 0>>,
     <<<<DocSkin(<<1, 2>>, 0)>>, <<Mat4Accessor(2, Translate3D(1, 0, 2))>>, 0>>,
     <<<<DocSkin(<<2>>, -1), DocSkin(<<0, 3, 2>>, -1)>>, <<>>, 1>>}

\* a primitive with every attribute bound; ok[k] tells whether the accessor of the
\* k-th of position, normal, texture coordinate, joints, weights fits the attribute
FullPrimitive(ok) ==
    [HasPosition |-> TRUE, PositionOK |-> ok[1],
     Positions |-> Triangle,
     Normal   |-> Attr(ok[2], <<<<0, 0, 1>>, <<0, 0, 1>>, <<0, 0, 1>>>>),
     TexCoord |-> Attr(ok[3], <<<<0, 0>>, <<1, 0>>, <<0, 1>>>>),
     Joints   |-> Attr(ok[4], <<<<0, 1, 0, 0>>, <<1, 0, 0, 0>>, <<0, 1, 0, 0>>>>),
     Weights  |-> Attr(ok[5], <<<<1, 0, 0, 0>>, <<1, 1, 0, 0>>, <<2, 0, 0, 0>>>>),
     HasIndices |-> FALSE]

AllOK == <<TRUE, TRUE, TRUE, TRUE, TRUE>>

\* the primitives of the one mesh: positions only; every attribute; a sole primitive
\* without position; a second primitive without position; a position accessor of
\* the wrong type; each optional attribute, in turn, bound to an accessor of the
\* wrong type
PrimitiveLists ==
    {<<DocPrimitive(TRUE)>>,
     <<FullPrimitive(AllOK)>>,
     <<DocPrimitive(FALSE)>>,
     <<FullPrimitive(AllOK), DocPrimitive(FALSE)>>}
    \cup {<<FullPrimitive([AllOK EXCEPT ![k] = FALSE])>> : k \in 1..5}

\* the hierarchies of three nodes: a chain, and two nodes that list each other
LoadHierarchies == {<<<<1>>, <<2>>, <<>>>>, <<<<1>>, <<0, 2>>, <<>>>>}

\* one clip, which animates node 1
LoadClip == [Name |-> "walk", Channels |-> <<DocChannel(1, "translation", <<0, 2>>, 2)>>]

\* a skin of one joint more than the shader has bone matrices
LargeSkin == <<<<DocSkin([i \in 1..(MaxBones + 1) |-> (i - 1) % 3], -1)>>, <<>>, 0>>

\* three nodes with the same authored transform; node 0 carries the mesh and the skin
LoadDoc(c, trs, sk, prims) ==
    Doc([i \in 1..3 |->
            [DocNode(c[i], trs[1], trs[2], trs[3], IF i = 1 THEN 0 ELSE -1)
                EXCEPT !.Skin = IF i = 1 THEN sk[3] ELSE -1]],
        <<[Primitives |-> prims]>>, <<LoadClip>>, sk[1], sk[2])

LoadDocs ==
    {LoadDoc(c, trs, sk, prims) :
        c \in LoadHierarchies, trs \in AuthoredTRS, sk \in SkinShapes,
        prims \in PrimitiveLists}
    \cup {LoadDoc(<<<<1>>, <<2>>, <<>>>>, <<<<1, 2, 3>>, <<0, 0, 0, 1>>, <<2, 1, 1>>>>,
                  LargeSkin, prims) :
            prims \in {<<DocPrimitive(TRUE)>>, <<DocPrimitive(FALSE)>>}}

\* two skins: joints 1 and 2 with stored inverse-bind matrices; joint 2 alone
RenderSkins == <<DocSkin(<<1, 2>>, 0), DocSkin(<<2>>, -1)>>

\* two meshes: one indexed primitive; a primitive without indices and an indexed one
RenderPrimitives ==
    <<[Primitives |-> <<DocPrimitive(TRUE)>>],
      [Primitives |-> <<FullPrimitive(AllOK), DocPrimitive(TRUE)>>]>>

\* <<mesh, skin>> of the nodes 0, 1, 2: two meshes of different skins, the larger
\* drawn first; an unskinned mesh before the two primitives of a skinned one
Rigs ==
    {<<<<0, 0>>, <<0, 1>>, <<-1, -1>>>>,
     <<<<0, -1>>, <<1, 1>>, <<-1, -1>>>>}

LoneMesh == <<<<0, -1>>, <<-1, -1>>, <<-1, -1>>>>

\* a clip of duration 2 whose second channel ends at 1
Walk == [Name |-> "walk",
         Channels |-> <<DocChannel(1, "translation", <<0, 2>>, 2),
                        DocChannel(2, "scale", <<0, 1>>, 2)>>]

Turn(name) == [Name |-> name, Channels |-> <<DocChannel(1, "rotation", <<0, 1>>, 2)>>]

Slide(name) == [Name |-> name, Channels |-> <<DocChannel(2, "translation", <<1, 2>>, 2)>>]

\* a clip none of whose channels can be read
Unreadable ==
    [Name |-> "", Channels |-> <<[DocChannel(1, "scale", <<0, 1>>, 2)
                                     EXCEPT !.TimestampsOK = FALSE]>>]

\* the animations of a document: two clips of one name; an authored name equal to
\* the name generated for the unnamed clip after it; two unnamed clips; an
\* unreadable clip before a named one
ClipLists ==
    {<<Walk, Turn("walk")>>,
     <<Turn("animation_1"), Slide("")>>,
     <<Turn(""), Slide("")>>,
     <<Unreadable, Turn("walk")>>}

\* the authored scale of node 2
AuthoredScales == {<<1, 1, 1>>, <<0, 0, 0>>, <<3, 1, 2>>}

\* a chain of three nodes
RenderDoc(rig, scale, clips) ==
    Doc(<<[DocNode(<<1>>, <<2, 0, 0>>, <<0, 0, 0, 1>>, <<1, 1, 1>>, rig[1][1])
              EXCEPT !.Skin = rig[1][2]],
          [DocNode(<<2>>, <<0, 0, 0>>, <<1, 0, 0, 0>>, <<2, 2, 2>>, rig[2][1])
              EXCEPT !.Skin = rig[2][2]],
          [DocNode(<<>>, <<0, 1, 0>>, <<0, 0, 0, 1>>, scale, rig[3][1])
              EXCEPT !.Skin = rig[3][2]]>>,
        RenderPrimitives, clips, RenderSkins, <<Mat4Accessor(2, BindData)>>)

\* documents of several clips, and of several authored scales
ClipDocs == {RenderDoc(LoneMesh, <<1, 1, 1>>, clips) : clips \in ClipLists}

ScaleDocs == {RenderDoc(LoneMesh, scale, <<Walk>>) : scale \in AuthoredScales}

NextLoad ==
    \/ \E doc \in LoadDocs \cup ClipDocs \cup ScaleDocs : LoadGLB(doc)
    \/ \E skinIndex \in -1..2 : computeBoneMatrices(skinIndex)

SpecLoad == Init /\ [][NextLoad]_vars

---------------------------------------------------------------------------
(* Properties of skinning and of loading *)

\* the global transform of node n: identity for an index that is no node, else the
\* product of the local matrices from the root down to n
GlobalTransform(n) ==
    IF n < 0 \/ n >= Len(NodeTransforms) THEN Ident4
    ELSE LET path == RootPath(n, Len(NodeParents))
         IN  PathProduct(path, Len(path))

\* the skin the last call of computeBoneMatrices was made for
BoneSkin == At(Skins, bm.skinIndex)

BonesComputed ==
    bm.called /\ ~panicked /\ bm.skinIndex >= 0 /\ bm.skinIndex < Len(Skins)

\* C12: after computeBoneMatrices(skin), for every joint index i of the skin,
\* boneMatrix[i] = globalTransform(joint_i) . inverseBindMatrix[i], the joint
\* transform on the left; with identity inverse-bind matrices a two-joint skin
\* yields [globalTransform(joint0), globalTransform(joint1)].
C12_BoneMatrixIsGlobalTimesInverseBind ==
    BonesComputed
    => /\ \A i \in 1..Len(BoneSkin.Joints) :
            BoneMatrices[i] = Mul4(GlobalTransform(BoneSkin.Joints[i]),
                                   BoneSkin.InverseBindMatrices[i])
       /\ (Len(BoneSkin.Joints) = 2 /\ BoneSkin.InverseBindMatrices = <<Ident4, Ident4>>)
          => SubSeq(BoneMatrices, 1, 2) = <<GlobalTransform(BoneSkin.Joints[1]),
                                            GlobalTransform(BoneSkin.Joints[2])>>

\* a skin whose inverse-bind matrices do not commute with the joint transforms
C12_Witness ==
    /\ BonesComputed
    /\ Len(BoneSkin.Joints) = 2
    /\ \A i \in 1..2 :
          /\ BoneMatrices[i] = Mul4(GlobalTransform(BoneSkin.Joints[i]),
                                    BoneSkin.InverseBindMatrices[i])
          /\ BoneMatrices[i] # Mul4(BoneSkin.InverseBindMatrices[i],
                                    GlobalTransform(BoneSkin.Joints[i]))
          /\ BoneMatrices[i] # bm.pre[i]

\* the document stores an inverse-bind matrix for joint i (from 1) of the skin:
\* the skin names an accessor the document has, of at least i matrices
Supplies(doc, skin, i) ==
    /\ skin.InverseBindMatrices >= 0
    /\ skin.InverseBindMatrices < Len(doc.Accessors)
    /\ i <= At(doc.Accessors, skin.InverseBindMatrices).Count

\* C13: every skin registered by a successful load has exactly one inverse-bind
\* matrix per joint, and every joint for which the source supplies no inverse-bind
\* matrix has the identity matrix, also when the accessor the skin names cannot be
\* read or holds fewer matrices than the skin has joints.
C13_OneInverseBindMatrixPerJoint ==
    (last.op = "load" /\ ~last.err)
    => \A k \in 1..Len(Skins) :
          /\ Len(Skins[k].InverseBindMatrices) = Len(Skins[k].Joints)
          /\ \A i \in 1..Len(Skins[k].Joints) :
                ~Supplies(Document, Document.Skins[k], i)
                => Skins[k].InverseBindMatrices[i] = Ident4

\* C14: load fails for every document that contains a skin with more than 128
\* joints; no successfully loaded renderer holds a skin whose joint list is longer
\* than 128.
C14_NoSkinOverCapacity ==
    (last.op = "load" /\ ~last.err)
    => \A k \in 1..Len(Skins) : Len(Skins[k].Joints) <= MaxBones

\* the document has one primitive, and it has no position attribute
SolePrimitiveLacksPosition(doc) ==
    LET work == NodePrimitives(doc, 0)
    IN  Len(work) = 1 /\ ~work[1].prim.HasPosition

\* C15: loading a document whose only primitive has no position attribute returns
\* an error and leaves the renderer with zero registered meshes.
C15_SolePrimitiveWithoutPositionFails ==
    (last.op = "load" /\ ~panicked /\ SolePrimitiveLacksPosition(Document))
    => (last.err /\ loaded = "failed" /\ Len(Meshes) = 0)

\* such a document, with a skin and an animation, was refused
C15_Witness ==
    /\ last.op = "load" /\ SolePrimitiveLacksPosition(Document)
    /\ Len(Document.Skins) > 0 /\ Len(Document.Animations) > 0
    /\ last.err /\ Meshes = <<>>

\* C16: whenever load returns an error, no partial document is left behind: the
\* renderer holds no meshes, skins, node transforms, parent table or animations of
\* the failed document; its document state equals the state before the call.
C16_FailedLoadLeavesNoDocument ==
    (last.op = "load" /\ last.err /\ ~panicked) => DocumentState = last.doc

\* an attribute bound to an accessor whose type does not fit it
Mismatches(prim) ==
    \/ prim.HasPosition /\ ~prim.PositionOK
    \/ \E attr \in {prim.Normal, prim.TexCoord, prim.Joints, prim.Weights} :
          attr.Present /\ ~attr.OK

\* C17: load fails whenever an attribute accessor bound to a primitive (position,
\* normal, texture coordinate, joints or weights) has a component type or count
\* that disagrees with the attribute; a mismatching optional attribute is never
\* silently replaced by its default value.
C17_MismatchingAccessorFailsLoad ==
    (last.op = "load" /\ ~panicked
        /\ \E k \in 1..Len(NodePrimitives(Document, 0)) :
              Mismatches(NodePrimitives(Document, 0)[k].prim))
    => last.err

---------------------------------------------------------------------------
(* The desktop texture: UpdateTexture *)

\* the byte at offset k of the buffer; `beyond` is what a read past its end yields
Byte(buffer, k, beyond) == IF k < Len(buffer) THEN At(buffer, k) ELSE beyond

\* the four bytes (RGBA, UNSIGNED_BYTE) of the pixel at byte offset k
Pixel(buffer, k, beyond) ==
    <<Byte(buffer, k, beyond), Byte(buffer, k + 1, beyond),
      Byte(buffer, k + 2, beyond), Byte(buffer, k + 3, beyond)>>

\* the bytes from one row to the next as gl.TexSubImage2D reads them: the unpack row
\* length is never set, so rows are taken as `width` tightly packed pixels
RowBytes(width) == width * 4

\* gl.TexSubImage2D reads width * height pixels from &buffer[0] on
ReadsPastEnd(buffer, width, height) == RowBytes(width) * height > Len(buffer)

\* gl.TexImage2D(..., width, height, ..., nil): new storage; its contents are
\* undefined, and the write that follows replaces all of them
TexImage2D(width, height) ==
    [Width |-> width, Height |-> height,
     Texels |-> [r \in 1..height |-> [x \in 1..width |-> <<0, 0, 0, 0>>]]]

\* gl.TexSubImage2D(..., 0, 0, width, height, ..., &buffer[0]): writes the region
\* into the storage; a region that does not fit is an error and writes nothing
TexSubImage2D(storage, buffer, width, height, beyond) ==
    IF width > storage.Width \/ height > storage.Height THEN storage
    ELSE [storage EXCEPT !.Texels =
            [r \in 1..storage.Height |-> [x \in 1..storage.Width |->
                IF r <= height /\ x <= width
                THEN Pixel(buffer, (r - 1) * RowBytes(width) + 4 * (x - 1), beyond)
                ELSE storage.Texels[r][x]]]]

\* the empty buffer handed on to the upload
IsEmpty_Never(buffer) == FALSE

\* if len(buffer) == 0
IsEmpty(buffer) == Len(buffer) = 0

\* the resize decided on the width alone
NeedsResize_WidthOnly(textureWidth, textureHeight, width, height) ==
    textureWidth # width

\* if r.TextureWidth != width || r.TextureHeight != height
NeedsResize(textureWidth, textureHeight, width, height) ==
    textureWidth # width \/ textureHeight # height

\* what the read of a buffer shorter than width * height pixels can do: -1, the
\* process is ended by a memory fault; 0 or 255, the bytes past the end read as that
\* value.  A buffer that is long enough is read as it is.
ReadOutcomes(buffer, width, height) ==
    IF ReadsPastEnd(buffer, width, height) THEN {-1, 0, 255} ELSE {0}

UpdateTexture(buffer, width, height, stride) ==
    /\ ~panicked
    /\ IF IsEmpty(buffer)
       THEN /\ tx' = [called |-> TRUE, buffer |-> buffer, width |-> width,
                      height |-> height, stride |-> stride,
                      realloc |-> FALSE, written |-> FALSE,
                      pre |-> [TextureWidth |-> TextureWidth,
                               TextureHeight |-> TextureHeight, Texture |-> Texture]]
            /\ UNCHANGED <<textureVars, panicked>>
       ELSE LET resize == NeedsResize(TextureWidth, TextureHeight, width, height)
                storage == IF resize THEN TexImage2D(width, height) ELSE Texture
            IN  \E beyond \in ReadOutcomes(buffer, width, height) :
                   /\ TextureWidth' = IF resize THEN width ELSE TextureWidth
                   /\ TextureHeight' = IF resize THEN height ELSE TextureHeight
                   /\ Texture' = IF beyond < 0 THEN storage
                                 ELSE TexSubImage2D(storage, buffer, width, height, beyond)
                   /\ panicked' = (beyond < 0)
                   /\ tx' = [called |-> TRUE, buffer |-> buffer, width |-> width,
                             height |-> height, stride |-> stride,
                             realloc |-> resize, written |-> beyond >= 0,
                             pre |-> [TextureWidth |-> TextureWidth,
                                      TextureHeight |-> TextureHeight,
                                      Texture |-> Texture]]
    /\ UNCHANGED <<loaded, Meshes, NodeParents, NodeTransforms, BaseTransforms, Animations,
                   CurrentAnim, AnimStartTime, AnimLoop, now, Document, Skins,
                   BoneMatrices, last, ik, gt, bm, gpu, mainLoop, ws>>

\* a frame of n bytes: byte k is k + seed (mod 256)
Frame(n, seed) == [k \in 1..n |-> (k - 1 + seed) % 256]

\* the row strides of a frame `width` pixels wide: no padding up to MaxPad pixels
Strides(width) == {4 * (width + pad) : pad \in 0..MaxPad}

\* the buffers handed in with (width, height, stride): two frames of stride * height
\* bytes, the empty buffer, and a buffer of a single byte
Buffers(width, height, stride) ==
    {Frame(stride * height, 0), Frame(stride * height, 100), <<>>, <<9>>}

NextTexture ==
    \E width \in 1..MaxWidth, height \in 1..MaxHeight :
        \E stride \in Strides(width) :
            \E buffer \in Buffers(width, height, stride) :
                UpdateTexture(buffer, width, height, stride)

SpecTexture == Init /\ [][NextTexture]_vars

\* C18: updateTexture called with a zero-length pixel buffer changes nothing: the
\* texture contents and the recorded width and height are the same as before the
\* call, whatever width, height and stride were passed.
C18_EmptyBufferIsNoOp ==
    (tx.called /\ Len(tx.buffer) = 0)
    => /\ Texture = tx.pre.Texture
       /\ TextureWidth = tx.pre.TextureWidth
       /\ TextureHeight = tx.pre.TextureHeight
       /\ ~tx.realloc /\ ~tx.written /\ ~panicked

\* an empty buffer handed in with another size than that of the texture in use
C18_Witness ==
    /\ tx.called /\ Len(tx.buffer) = 0
    /\ Texture.Texels # <<>>
    /\ tx.width # TextureWidth /\ tx.height # TextureHeight
    /\ Texture = tx.pre.Texture

\* C19: over any sequence of updateTexture calls with non-empty buffers, the texture
\* storage is reallocated exactly on the calls whose (width, height) differ from the
\* recorded allocation, every other call writes the contents in place without
\* reallocation, and after each call the recorded allocation is that call's
\* (width, height).
C19_ReallocatesExactlyOnSizeChange ==
    (tx.called /\ Len(tx.buffer) > 0 /\ ~panicked)
    => /\ tx.realloc <=> (<<tx.width, tx.height>>
                            # <<tx.pre.TextureWidth, tx.pre.TextureHeight>>)
       /\ ~tx.realloc => (tx.written /\ Texture.Width = tx.pre.Texture.Width
                                     /\ Texture.Height = tx.pre.Texture.Height)
       /\ <<TextureWidth, TextureHeight>> = <<tx.width, tx.height>>
       /\ <<Texture.Width, Texture.Height>> = <<tx.width, tx.height>>

\* a frame of the size in use replaced the contents without reallocation, after an
\* earlier frame of another size
C19_Witness ==
    /\ tx.called /\ Len(tx.buffer) > 0 /\ ~panicked
    /\ ~tx.realloc /\ tx.written
    /\ tx.height > 1
    /\ Texture.Texels # tx.pre.Texture.Texels
    /\ <<TextureWidth, TextureHeight>> = <<tx.width, tx.height>>

\* C20: updateTexture(pixels, width, height, strideBytes) takes texture row r from
\* pixels at byte offset r * strideBytes for every r < height, so the padding of
\* strideBytes > width*4 is skipped: texel (x, r) is the 4 bytes at
\* r*strideBytes + 4*x.
C20_RowsTakenAtStride ==
    (tx.called /\ tx.written /\ Len(tx.buffer) >= tx.stride * tx.height)
    => \A r \in 0..(tx.height - 1) : \A x \in 0..(tx.width - 1) :
          Texture.Texels[r + 1][x + 1] = Pixel(tx.buffer, r * tx.stride + 4 * x, 0)

---------------------------------------------------------------------------
(* Render and Destroy: the frame drawn from the meshes, and the teardown *)

\* r.UpdateAnimation() as the fields it leaves to the rest of Render: the clip, the
\* transforms, whether interpolation panicked, the elapsed time read and applied
AnimationStep ==
    IF CurrentAnim = NoAnim
    THEN [CurrentAnim |-> NoAnim, NodeTransforms |-> NodeTransforms, panic |-> FALSE,
          raw |-> -1, elapsed |-> -1]
    ELSE LET anim == Animations[CurrentAnim]
             raw == Elapsed(AnimStartTime, now)
             wraps == LoopWraps(AnimLoop, anim.Duration)
             elapsed == IF wraps THEN WrapElapsed(raw, anim.Duration) ELSE raw
         IN  IF ~wraps /\ Finished(elapsed, anim.Duration)
             THEN [CurrentAnim |-> NoAnim, NodeTransforms |-> NodeTransforms,
                   panic |-> FALSE, raw |-> raw, elapsed |-> -1]
             ELSE LET res == ApplyChannels(ResetToBase(NodeTransforms, BaseTransforms),
                                           anim.Channels, 1, elapsed)
                  IN  [CurrentAnim |-> CurrentAnim, NodeTransforms |-> res.transforms,
                       panic |-> res.panic, raw |-> raw, elapsed |-> elapsed]

\* boneMatrices[i] of the shader program, i from 0.  gpu.bones lists the slots up to
\* the highest one ever set; a uniform that was never set holds zero.
Slot(bones, i) == IF i < Len(bones) THEN At(bones, i) ELSE ZeroMat4

\* numJoints := len(r.Skins[mesh.SkinIndex].Joints); if numJoints > 128 { numJoints = 128 }
NumJoints(skin) == IF Len(skin.Joints) > MaxBones THEN MaxBones ELSE Len(skin.Joints)

\* for i := 0; i < numJoints; i++ { gl.UniformMatrix4fv(loc(i), ..., &r.BoneMatrices[i][0]) }
UploadBones(bones, numJoints, boneMatrices) ==
    [k \in 1..(IF numJoints > Len(bones) THEN numJoints ELSE Len(bones)) |->
        IF k <= numJoints THEN boneMatrices[k] ELSE bones[k]]

\* for i := 0; i < 128; i++ { gl.UniformMatrix4fv(loc(i), ..., &identity[0]) }
UploadIdentity == [k \in 1..MaxBones |-> Ident4]

\* gl.DrawElements / gl.DrawArrays for the k-th mesh, with the bone uniforms it sees
Draw(draws, k, bones) == Append(draws, [mesh |-> k, bones |-> bones])

\* the upload and the draw of a skinned mesh, b the outcome of computeBoneMatrices.
\* A panic of computeBoneMatrices ends Render before the upload.
UploadAndDraw(k, skin, b, s) ==
    IF b.panic
    THEN [s EXCEPT !.panic = TRUE, !.BoneMatrices = b.BoneMatrices]
    ELSE CHOOSE r \in
            {[panic |-> FALSE, BoneMatrices |-> b.BoneMatrices,
              bones |-> u, draws |-> Draw(s.draws, k, u)] :
                u \in {UploadBones(s.bones, NumJoints(skin), b.BoneMatrices)}} : TRUE

\* the skinned branch of the mesh loop: computeBoneMatrices, the upload, the draw
SkinnedDraw(k, skin, transforms, s) ==
    CHOOSE r \in
        {UploadAndDraw(k, skin, b, s) :
            b \in {BoneLoop(NodeParents, transforms, skin,
                            EnsureSpace(s.BoneMatrices, skin))}} : TRUE

\* one iteration of `for _, mesh := range r.Meshes` in Render
RenderMesh(mesh, k, transforms, state) ==
    CHOOSE r \in
        {IF s.panic THEN s
         ELSE IF mesh.SkinIndex >= 0 /\ mesh.SkinIndex < Len(Skins)
         THEN SkinnedDraw(k, At(Skins, mesh.SkinIndex), transforms, s)
         ELSE [s EXCEPT !.bones = UploadIdentity,
                        !.draws = Draw(@, k, UploadIdentity)] :
            s \in {state}} : TRUE

\* the mesh loop of Render from the k-th mesh on
RECURSIVE DrawMeshes(_, _, _, _)
DrawMeshes(meshes, k, transforms, state) ==
    IF k > Len(meshes) THEN state
    ELSE DrawMeshes(meshes, k + 1, transforms,
                    RenderMesh(meshes[k], k, transforms, state))

\* Render: the window size enters the projection matrix only
Render ==
    /\ loaded = "ok"
    /\ ~panicked
    /\ \E step \in {AnimationStep} :
         \E res \in {IF step.panic
                     THEN [panic |-> TRUE, BoneMatrices |-> BoneMatrices,
                           bones |-> gpu.bones, draws |-> <<>>]
                     ELSE DrawMeshes(Meshes, 1, step.NodeTransforms,
                                     [panic |-> FALSE, BoneMatrices |-> BoneMatrices,
                                      bones |-> gpu.bones, draws |-> <<>>])} :
            /\ CurrentAnim' = step.CurrentAnim
            /\ NodeTransforms' = step.NodeTransforms
            /\ panicked' = res.panic
            /\ BoneMatrices' = res.BoneMatrices
            /\ gpu' = [gpu EXCEPT !.bones = res.bones, !.draws = res.draws]
            /\ last' = Call("render", "", FALSE, FALSE, step.raw, step.elapsed)
    /\ UNCHANGED <<loaded, Meshes, NodeParents, BaseTransforms, Animations,
                   AnimStartTime, AnimLoop, now, Document, Skins, textureVars,
                   ik, gt, tx, bm, mainLoop, ws>>

\* the body of `for _, mesh := range r.Meshes` in Destroy, for the k-th mesh
DestroyMesh(m, k) ==
    <<GLObject("VAO", k), GLObject("VBO", k)>>
    \o (IF m.HasIndices THEN <<GLObject("EBO", k)>> ELSE <<>>)

\* the mesh loop of Destroy from the k-th mesh on
RECURSIVE DestroyMeshes(_, _)
DestroyMeshes(meshes, k) ==
    IF k > Len(meshes) THEN <<>>
    ELSE DestroyMesh(meshes[k], k) \o DestroyMeshes(meshes, k + 1)

\* Destroy, deferred by main once NewGLBRenderer returned; main returns after it.
\* A failed LoadGLB ends the process in log.Fatalf, which runs no deferred call.
Destroy ==
    /\ loaded = "ok"
    /\ ~panicked
    /\ loaded' = "destroyed"
    /\ gpu' = [gpu EXCEPT !.deleted = @ \o DestroyMeshes(Meshes, 1)
                                        \o <<GLObject("texture", 0),
                                             GLObject("program", 0)>>]
    /\ last' = Call("destroy", "", FALSE, FALSE, -1, -1)
    /\ UNCHANGED <<Meshes, NodeParents, NodeTransforms, BaseTransforms, Animations,
                   CurrentAnim, AnimStartTime, AnimLoop, now, panicked, Document, Skins,
                   BoneMatrices, textureVars, ik, gt, tx, bm, mainLoop, ws>>

RenderDocs == {RenderDoc(rig, <<1, 1, 1>>, <<Walk>>) : rig \in Rigs}

\* the name handed to PlayAnimation: the clip of RenderDocs
RenderNames == {"walk"}

NextRender ==
    \/ \E doc \in RenderDocs : LoadGLB(doc)
    \/ \E name \in RenderNames, loop \in BOOLEAN : PlayAnimation(name, loop)
    \/ StopAnimation
    \/ Tick
    \/ Render
    \/ Destroy

SpecRender == Init /\ [][NextRender]_vars

---------------------------------------------------------------------------
(* Properties of teardown, of the frame and of the engine under Render *)

\* a sequence back to front
Reverse(s) == [i \in 1..Len(s) |-> s[Len(s) + 1 - i]]

\* C21: at teardown every GPU object that was created (the shader program, the
\* texture, each mesh's VAO, VBO and EBO) is destroyed exactly once, in the exact
\* reverse of the order of creation: the objects of the mesh created last go first,
\* the shader program, created first, goes last.
C21_DestroyedInReverseOfCreation ==
    loaded = "destroyed" => gpu.deleted = Reverse(gpu.created)

\* the authored transform of node n (from 1) of the loaded document
Authored(n) ==
    [Translation |-> Vec3(Document.Nodes[n].Translation[1],
                          Document.Nodes[n].Translation[2],
                          Document.Nodes[n].Translation[3]),
     Rotation    |-> Quat(Document.Nodes[n].Rotation[4],
                          Vec3(Document.Nodes[n].Rotation[1],
                               Document.Nodes[n].Rotation[2],
                               Document.Nodes[n].Rotation[3])),
     Scale       |-> Vec3(Document.Nodes[n].Scale[1],
                          Document.Nodes[n].Scale[2],
                          Document.Nodes[n].Scale[3])]

\* C23: once a document is loaded, no sequence of play, stop, update and render
\* changes a base transform; only the current transforms are written.
C23_BaseTransformsNeverChange ==
    [][loaded = "ok" => BaseTransforms' = BaseTransforms]_vars

\* a frame rendered while a clip plays: the pose moved, the base stayed as loaded
C23_Witness ==
    /\ last.op = "render"
    /\ CurrentAnim # NoAnim
    /\ NodeTransforms # BaseTransforms
    /\ NodeTransforms # last.pre.NodeTransforms
    /\ BaseTransforms = last.doc.BaseTransforms
    /\ BaseTransforms = [n \in 1..Len(Document.Nodes) |-> Authored(n)]

\* the last sample of a channel, as the value of the property it animates
LastSample(channel) ==
    LET c == Components(channel.Path)
        v == SubSeq(channel.Values, (Len(channel.Timestamps) - 1) * c + 1,
                    Len(channel.Timestamps) * c)
    IN  IF channel.Path = "rotation"
        THEN <<Quat(v[4], Vec3(v[1], v[2], v[3]))>>
        ELSE <<Vec3(v[1], v[2], v[3])>>

\* the last call ran UpdateAnimation on a clip that does not loop
UpdatedOnce ==
    /\ last.op \in {"update", "render"}
    /\ WasPlaying
    /\ ~last.pre.AnimLoop
    /\ ~panicked

\* C25: for a clip of duration D played without loop, the update whose elapsed time
\* equals D keeps the engine Playing and leaves every animated property at the last
\* keyframe of its channel (a channel that ends before D holds its own last sample);
\* only an elapsed time strictly greater than D stops the clip.
C25_UpdateAtDurationHoldsLastKeyframe ==
    UpdatedOnce
    => /\ (CurrentAnim = NoAnim) <=> (last.raw > PreAnim.Duration)
       /\ last.raw = PreAnim.Duration
          => /\ CurrentAnim = last.pre.CurrentAnim
             /\ \A k \in 1..Len(PreAnim.Channels) :
                   LET channel == PreAnim.Channels[k]
                   IN  Property(NodeTransforms[channel.NodeIndex + 1], channel.Path)
                           = LastSample(channel)

\* the update at elapsed = D of a clip one of whose channels ended before D
C25_Witness ==
    /\ UpdatedOnce
    /\ last.raw = PreAnim.Duration
    /\ CurrentAnim = last.pre.CurrentAnim
    /\ \E k \in 1..Len(PreAnim.Channels) :
          LET channel == PreAnim.Channels[k]
          IN  /\ channel.Timestamps[Len(channel.Timestamps)] < PreAnim.Duration
              /\ Property(NodeTransforms[channel.NodeIndex + 1], channel.Path)
                     = LastSample(channel)
              /\ LastSample(channel)
                     # Property(BaseTransforms[channel.NodeIndex + 1], channel.Path)

\* the skin a mesh is drawn with: its index in r.Skins, or -1
SkinOf(mesh) ==
    IF mesh.SkinIndex >= 0 /\ mesh.SkinIndex < Len(Skins) THEN mesh.SkinIndex ELSE -1

\* slot i (from 0) holds the bone matrix of joint i of the skin for this frame
FreshBone(bones, skinIndex, i) ==
    /\ skinIndex >= 0
    /\ i < Len(At(Skins, skinIndex).Joints)
    /\ Slot(bones, i) = Mul4(GlobalTransform(At(At(Skins, skinIndex).Joints, i)),
                             At(At(Skins, skinIndex).InverseBindMatrices, i))

\* C29: at the moment Render issues the draw of a mesh, each of the 128 bone-matrix
\* slots of the shader holds either a bone matrix computed in this frame for that
\* mesh's own skin or the identity; no slot holds a matrix left over from another
\* mesh's skin or from an earlier frame.
C29_NoStaleBoneMatrixAtDraw ==
    (last.op = "render" /\ ~panicked)
    => \A d \in 1..Len(gpu.draws) : \A i \in 0..(MaxBones - 1) :
          \/ Slot(gpu.draws[d].bones, i) = Ident4
          \/ FreshBone(gpu.draws[d].bones, SkinOf(Meshes[gpu.draws[d].mesh]), i)

---------------------------------------------------------------------------
(* Properties of interpolateKeyframes between keyframes and at short buffers *)

\* the keyframe (from 1) at or before t, for ts[1] <= t < ts[Len(ts)]
Bracket(ts, t) == CHOOSE k \in 1..(Len(ts) - 1) : ts[k] <= t /\ t < ts[k + 1]

\* a call between the first and the last keyframe of a translation or scale channel
Bracketed ==
    /\ ik.called
    /\ ik.channel.Path # "rotation"
    /\ Len(ik.channel.Timestamps) >= 2
    /\ StrictlyIncreasing(ik.channel.Timestamps)
    /\ FullyValued(ik.channel)
    /\ ik.channel.Timestamps[1] <= ik.t
    /\ ik.t < ik.channel.Timestamps[Len(ik.channel.Timestamps)]

\* C24: for a channel with strictly increasing timestamps and
\* timestamps[0] <= t < timestamps[last], the sampled translation or scale is
\* v0 + (v1 - v0) * f, v0 and v1 the samples of the keyframes that bracket t and
\* f = (t - t0) / (t1 - t0) in [0, 1]; at t = t0 the result is v0 exactly.
C24_LinearBetweenBracketingKeyframes ==
    Bracketed
    => LET ts == ik.channel.Timestamps
           k == Bracket(ts, ik.t)
           v0 == KeyValue(ik.channel.Path, k - 1)
           v1 == KeyValue(ik.channel.Path, k)
       IN  /\ ~ik.result.panic
           /\ Len(ik.result.value) = 3
           /\ \A i \in 1..3 :
                 (ts[k + 1] - ts[k]) * (ik.result.value[i] - v0[i])
                     = (v1[i] - v0[i]) * (ik.t - ts[k])
           /\ ik.t = ts[k] => ik.result.value = v0

\* a sample taken strictly between two keyframes, different from both
C24_Witness ==
    /\ Bracketed
    /\ LET ts == ik.channel.Timestamps
           k == Bracket(ts, ik.t)
       IN  /\ ts[k] < ik.t
           /\ ik.result.value # KeyValue(ik.channel.Path, k - 1)
           /\ ik.result.value # KeyValue(ik.channel.Path, k)
           /\ 2 * ik.result.value[1]
                 = KeyValue(ik.channel.Path, k - 1)[1] + KeyValue(ik.channel.Path, k)[1]

\* C27: interpolateKeyframes and the update never read outside a channel's value
\* buffer or timestamp list, for every channel a load can register (value buffers
\* shorter than keyframes x components included) and every elapsed time: a call
\* returns a full value of 3 or 4 components, or none and the property stays at base.
C27_NeverReadsOutsideTheBuffers ==
    ik.called
    => /\ ~ik.result.panic
       /\ Len(ik.result.value) \in {0, Components(ik.channel.Path)}

---------------------------------------------------------------------------
(* Properties of the transforms and of the registry a load leaves *)

\* C26: after a successful load the base and the initial current transform of every
\* node equal the translation, rotation and scale authored in the source, for every
\* authored value, a scale of (0, 0, 0) included.
C26_LoadedTransformsAreAuthored ==
    (last.op = "load" /\ ~last.err)
    => \A n \in 1..Len(Document.Nodes) :
          BaseTransforms[n] = Authored(n) /\ NodeTransforms[n] = Authored(n)

\* the channel loop keeps the channel: it has a target node and both accessors read
Readable(channel) == channel.Node >= 0 /\ channel.TimestampsOK /\ channel.ValuesOK

\* the clips (from 1) of the document with at least one readable channel
ReadableClips(doc) ==
    {k \in 1..Len(doc.Animations) :
        \E j \in 1..Len(doc.Animations[k].Channels) :
            Readable(doc.Animations[k].Channels[j])}

\* <<node, path>> of the readable channels of a clip of the document, in order
Tracks(clip) ==
    LET kept == SelectSeq(clip.Channels, Readable)
    IN  [j \in 1..Len(kept) |-> <<kept[j].Node, kept[j].Path>>]

\* animation `name` of the registry is the clip: it animates the clip's tracks
Holds(name, clip) ==
    /\ name \in DOMAIN Animations
    /\ [j \in 1..Len(Animations[name].Channels) |->
           <<Animations[name].Channels[j].NodeIndex, Animations[name].Channels[j].Path>>]
       = Tracks(clip)

\* C28: every animation of the source with at least one readable channel is
\* registered and can be started, a named one under its own name; no clip replaces
\* another, also when two clips share a name or when the name generated for an
\* unnamed clip equals the authored name of another.
C28_EveryReadableClipIsRegistered ==
    (last.op = "load" /\ ~last.err)
    => /\ Cardinality(DOMAIN Animations) = Cardinality(ReadableClips(Document))
       /\ \A k \in ReadableClips(Document) :
             IF Document.Animations[k].Name # ""
             THEN Holds(Document.Animations[k].Name, Document.Animations[k])
             ELSE \E name \in DOMAIN Animations : Holds(name, Document.Animations[k])

---------------------------------------------------------------------------
(* main: the render loop, the accept goroutine and the lock mu *)

mainVars == <<rendererVars, ik, gt, tx, bm, ws>>

\* mu.Lock() of the SDL event loop
PollLock ==
    /\ mainLoop.pc = "select"
    /\ mainLoop.mu = "free"
    /\ mainLoop' = [mainLoop EXCEPT !.pc = "event", !.mu = "main"]
    /\ UNCHANGED mainVars

\* activeClients := clients; mu.Unlock(); the event is forwarded to the clients
PollUnlock ==
    /\ mainLoop.pc = "event"
    /\ mainLoop' = [mainLoop EXCEPT !.pc = "select", !.mu = "free",
                                    !.activeClients = mainLoop.clients]
    /\ UNCHANGED mainVars

\* case <-ticker.C: mu.Lock()
TickLock ==
    /\ mainLoop.pc = "select"
    /\ mainLoop.mu = "free"
    /\ mainLoop.ticks < MaxTicks
    /\ mainLoop' = [mainLoop EXCEPT !.pc = "draw", !.mu = "main", !.ticks = @ + 1]
    /\ UNCHANGED mainVars

\* the clients that stay after the filter on c.Status
Connected(clients) == SelectSeq(clients, LAMBDA status : status = "connected")

\* the filter of disconnected clients and desktop.DrawClients(clients), which
\* composes the clients into desktop.Buffer
DrawClients ==
    /\ mainLoop.pc = "draw"
    /\ mainLoop' = [mainLoop EXCEPT
                       !.pc = "unlock",
                       !.clients = Connected(@),
                       !.Buffer = [frame |-> mainLoop.ticks,
                                   drawn |-> Len(Connected(mainLoop.clients))]]
    /\ UNCHANGED mainVars

\* mu.Unlock() after DrawClients
TickUnlock ==
    /\ mainLoop.pc = "unlock"
    /\ mainLoop' = [mainLoop EXCEPT !.pc = "broadcast", !.mu = "free"]
    /\ UNCHANGED mainVars

\* the loop reads desktop.Buffer and desktop.Stride at `site`
ReadBuffer(site) ==
    [site |-> site, locked |-> mainLoop.mu = "main", Buffer |-> mainLoop.Buffer]

\* if len(desktop.Buffer) > 0 { httpServer.BroadcastDesktopBuffer(desktop.Buffer, ...) }
BroadcastBuffer ==
    /\ mainLoop.pc = "broadcast"
    /\ mainLoop' = [mainLoop EXCEPT !.pc = "upload", !.read = ReadBuffer("broadcast")]
    /\ UNCHANGED mainVars

\* if len(desktop.Buffer) > 0 { glbRenderer.UpdateTexture(desktop.Buffer, ...) }
UploadBuffer ==
    /\ mainLoop.pc = "upload"
    /\ mainLoop' = [mainLoop EXCEPT !.pc = "render", !.read = ReadBuffer("upload")]
    /\ UNCHANGED mainVars

\* the rest of the tick: viewport, clear, glbRenderer.Render, GLSwap, the frame log
RenderFrame ==
    /\ mainLoop.pc = "render"
    /\ mainLoop' = [mainLoop EXCEPT !.pc = "select"]
    /\ UNCHANGED mainVars

\* the accept goroutine: a connection arrives, MakeClient, mu.Lock()
AcceptLock ==
    /\ mainLoop.accept = "wait"
    /\ mainLoop.mu = "free"
    /\ Len(mainLoop.clients) < MaxClients
    /\ mainLoop' = [mainLoop EXCEPT !.accept = "append", !.mu = "accept"]
    /\ UNCHANGED mainVars

\* clients = append(clients, client); mu.Unlock(); the client's goroutines start
AcceptAppend ==
    /\ mainLoop.accept = "append"
    /\ mainLoop' = [mainLoop EXCEPT !.accept = "wait", !.mu = "free",
                                    !.clients = Append(@, "connected")]
    /\ UNCHANGED mainVars

\* client.MainLoop, a goroutine of its own, finds the connection closed
ClientDisconnects(i) ==
    /\ i \in 1..Len(mainLoop.clients)
    /\ mainLoop.clients[i] = "connected"
    /\ mainLoop' = [mainLoop EXCEPT !.clients[i] = "closed"]
    /\ UNCHANGED mainVars

NextMain ==
    \/ PollLock
    \/ PollUnlock
    \/ TickLock
    \/ DrawClients
    \/ TickUnlock
    \/ BroadcastBuffer
    \/ UploadBuffer
    \/ RenderFrame
    \/ AcceptLock
    \/ AcceptAppend
    \/ \E i \in 1..MaxClients : ClientDisconnects(i)

SpecMain == Init /\ [][NextMain]_vars

\* C22: on every tick the render loop reads the desktop pixel buffer (pointer,
\* length, stride) while it holds the lock that guards the buffer's producer, and
\* releases the lock before the texture upload; in no interleaving with the client
\* goroutines does the upload or the broadcast see a buffer other than the one the
\* producer completed.
C22_BufferReadUnderLock ==
    mainLoop.read.site # "none"
    => /\ mainLoop.read.locked
       /\ mainLoop.read.Buffer = mainLoop.Buffer

---------------------------------------------------------------------------
(* The WebSocket server: connection handlers, readers, broadcast, ClientCount *)

serverVars == <<rendererVars, ik, gt, tx, bm, mainLoop>>

\* the goroutines: one per connection (its handler, then its reader), and the
\* render loop, which calls BroadcastDesktopBuffer and ClientCount
RenderLoop == 0

Unlocked == -1

\* s.mu.Lock() returns: no writer and no reader holds s.mu
CanLock == ws.writer = Unlocked /\ ws.readers = {}

\* s.mu.RLock() returns: no writer holds s.mu
CanRLock == ws.writer = Unlocked

\* HandleWebSocket: the upgrade succeeded, s.mu.Lock()
HandleLock(c) ==
    /\ ws.pc[c] = "new"
    /\ CanLock
    /\ ws' = [ws EXCEPT !.pc[c] = "insert", !.writer = c]
    /\ UNCHANGED serverVars

\* s.clients[conn] = true; s.mu.Unlock()
HandleInsert(c) ==
    /\ ws.pc[c] = "insert"
    /\ ws' = [ws EXCEPT !.pc[c] = "log", !.writer = Unlocked, !.clients = @ \cup {c}]
    /\ UNCHANGED serverVars

\* log.Printf(..., len(s.clients)); the reader goroutine starts
HandleLog(c) ==
    /\ ws.pc[c] = "log"
    /\ ws' = [ws EXCEPT !.pc[c] = "reading"]
    /\ UNCHANGED serverVars

\* conn.ReadMessage returns an error; the deferred function runs: s.mu.Lock()
ReaderLock(c) ==
    /\ ws.pc[c] = "reading"
    /\ CanLock
    /\ ws' = [ws EXCEPT !.pc[c] = "delete", !.writer = c]
    /\ UNCHANGED serverVars

\* delete(s.clients, conn); s.mu.Unlock()
ReaderDelete(c) ==
    /\ ws.pc[c] = "delete"
    /\ ws' = [ws EXCEPT !.pc[c] = "closing", !.writer = Unlocked, !.clients = @ \ {c}]
    /\ UNCHANGED serverVars

\* conn.Close(); log.Printf(..., len(s.clients))
ReaderLog(c) ==
    /\ ws.pc[c] = "closing"
    /\ ws' = [ws EXCEPT !.pc[c] = "done"]
    /\ UNCHANGED serverVars

\* BroadcastDesktopBuffer with a buffer that is not empty: s.mu.RLock()
BroadcastRLock ==
    /\ ws.main = "idle"
    /\ ws.calls < MaxCalls
    /\ CanRLock
    /\ ws' = [ws EXCEPT !.main = "copy", !.readers = @ \cup {RenderLoop},
                        !.calls = @ + 1]
    /\ UNCHANGED serverVars

\* the clients are copied from the map; s.mu.RUnlock()
BroadcastCopy ==
    /\ ws.main = "copy"
    /\ ws' = [ws EXCEPT !.main = "send", !.readers = @ \ {RenderLoop},
                        !.snapshot = ws.clients]
    /\ UNCHANGED serverVars

\* client.WriteMessage succeeds
BroadcastSend(c) ==
    /\ ws.main = "send"
    /\ c \in ws.snapshot
    /\ ws' = [ws EXCEPT !.snapshot = @ \ {c}]
    /\ UNCHANGED serverVars

\* client.WriteMessage fails: client.Close(); s.mu.Lock()
BroadcastSendFails(c) ==
    /\ ws.main = "send"
    /\ c \in ws.snapshot
    /\ CanLock
    /\ ws' = [ws EXCEPT !.main = "evict", !.snapshot = @ \ {c}, !.victim = c,
                        !.writer = RenderLoop]
    /\ UNCHANGED serverVars

\* delete(s.clients, client); s.mu.Unlock()
BroadcastEvict ==
    /\ ws.main = "evict"
    /\ ws' = [ws EXCEPT !.main = "send", !.writer = Unlocked,
                        !.clients = @ \ {ws.victim}]
    /\ UNCHANGED serverVars

\* every client of the copy was written to
BroadcastReturn ==
    /\ ws.main = "send"
    /\ ws.snapshot = {}
    /\ ws' = [ws EXCEPT !.main = "idle"]
    /\ UNCHANGED serverVars

\* ClientCount: s.mu.RLock()
CountRLock ==
    /\ ws.main = "idle"
    /\ ws.calls < MaxCalls
    /\ CanRLock
    /\ ws' = [ws EXCEPT !.main = "len", !.readers = @ \cup {RenderLoop},
                        !.calls = @ + 1]
    /\ UNCHANGED serverVars

\* return len(s.clients), the deferred s.mu.RUnlock()
CountReturn ==
    /\ ws.main = "len"
    /\ ws' = [ws EXCEPT !.main = "idle", !.readers = @ \ {RenderLoop}]
    /\ UNCHANGED serverVars

NextServer ==
    \/ \E c \in 1..MaxConns :
          \/ HandleLock(c)
          \/ HandleInsert(c)
          \/ HandleLog(c)
          \/ ReaderLock(c)
          \/ ReaderDelete(c)
          \/ ReaderLog(c)
          \/ BroadcastSend(c)
          \/ BroadcastSendFails(c)
    \/ BroadcastRLock
    \/ BroadcastCopy
    \/ BroadcastEvict
    \/ BroadcastReturn
    \/ CountRLock
    \/ CountReturn

SpecServer == Init /\ [][NextServer]_vars

Goroutines == 0..MaxConns

\* goroutine g is at a statement that writes s.clients
WritesClients(g) ==
    IF g = RenderLoop THEN ws.main = "evict" ELSE ws.pc[g] \in {"insert", "delete"}

\* goroutine g is at a statement that reads s.clients
ReadsClients(g) ==
    IF g = RenderLoop THEN ws.main \in {"copy", "len"} ELSE ws.pc[g] \in {"log", "closing"}

\* C30: every read and write of the clients map by the connection handler, its
\* reader goroutine, BroadcastDesktopBuffer and ClientCount is made while the
\* goroutine holds the registry lock (for writing, or for reading where it only
\* reads); no two goroutines are at the map at once with one of them writing.
C30_ClientsMapUnderLock ==
    /\ \A g \in Goroutines :
          /\ WritesClients(g) => ws.writer = g
          /\ ReadsClients(g) => (ws.writer = g \/ g \in ws.readers)
    /\ \A g, h \in Goroutines :
          (g # h /\ WritesClients(g)) => ~(WritesClients(h) \/ ReadsClients(h))

====
